---------------------------- MODULE Spec2Model ----------------------------
(***************************************************************************)
(* A model of the synchronization engine of server.js: the circuit breaker *)
(* and the retry handler (SpecBreaker), the chunking of jobs into batches  *)
(* (SpecChunk) and the per-account batch pipelines that write the jobs     *)
(* store and the sync session documents (SpecSync).                        *)
(***************************************************************************)
EXTENDS Integers, Sequences, FiniteSets, TLC

VARIABLES
    \* ---- circuit breaker and retry handler
    now,            \* Date.now(), in ms
    threshold,      \* CircuitBreaker.failureThreshold (constructor argument)
    recovery,       \* CircuitBreaker.recoveryTimeout (constructor argument), in ms
    cb,             \* the breaker's fields: state, failureCount, lastFailureTime
    w,              \* the withRetry invocations, one record per caller
    streak,         \* history: breaker-admitted operations that failed since the last one that succeeded
    upstreamCalls,  \* history: number of times a wrapped operation was invoked through the breaker
    \* ---- chunking
    ck,             \* one run of the batch-splitting loop
    \* ---- account pipelines
    accountsDb,     \* the accounts collection, in find() order
    sessions,       \* the syncSessions collection, by sessionId
    jobsStore,      \* the jobs collection: the stored <<account, UUID>> documents
    history,        \* the syncHistory collection: records inserted, per account
    cron,           \* the position of the cron handler
    task,           \* the account pipelines in flight, one record per task
    \* ---- session status
    st,             \* one request to the session status endpoint and its response
    \* ---- orchestration
    orch,           \* a cron run seen per account: upstream behaviour, status, error, totals
    \* ---- reconciliation of the jobs store
    sj,             \* one request to /api/sync-jobs/:accountId or /api/trigger-sync/:accountId
    \* ---- parallel update of all accounts
    par             \* one request to /api/update-all-jobs-parallel with its account workers

cbVars == <<now, threshold, recovery, cb, w, streak, upstreamCalls>>
chunkVars == <<ck>>
otherVars == <<ck, st, orch, sj, par>>
syncVars == <<accountsDb, sessions, jobsStore, history, cron, task>>
vars == <<now, threshold, recovery, cb, w, streak, upstreamCalls, ck,
          accountsDb, sessions, jobsStore, history, cron, task, st, orch, sj, par>>

-----------------------------------------------------------------------------
(* Bounds of the model *)

MaxTicks == 8          \* the clock stops after this many ticks
MaxThreshold == 2      \* failureThreshold ranges over 1..MaxThreshold
RecoveryTicks == 3     \* recoveryTimeout, in ticks
MaxAttempts == 3       \* maxRetries ranges over 1..MaxAttempts
MaxChunkJobs == 35     \* SpecChunk: the number of jobs ranges over 0..MaxChunkJobs
MaxChunkSize == 10     \* SpecChunk: batchSize ranges over 1..MaxChunkSize
MaxJobs == 2           \* SpecSync: an upstream fetch returns 0..MaxJobs jobs
MaxBatchSize == 2      \* SpecSync: batchSize ranges over 1..MaxBatchSize
MaxAccounts == 3       \* SpecStatus: a session has 1..MaxAccounts accounts
MaxEntities == 3       \* SpecOrch: the cron run has MaxEntities accounts
MaxUuids == 3          \* SpecJobs: the jobs are 1..MaxUuids
MaxWorkers == 2        \* SpecParallel: the operation has MaxWorkers accounts
MaxStatusRepeats == 2  \* SpecStatus: requests made while the previous answer stands
MaxWorkerJobs == 2     \* SpecParallel: an account has 0..MaxWorkerJobs stored jobs

(* Program constants *)

OverloadBaseMs == 10000    \* the 520 backoff base
WorkizThreshold == 3       \* failureThreshold of workizCircuitBreaker
WorkizRecoveryMs == 600000 \* recoveryTimeout of workizCircuitBreaker
CronDelayMs == 2000        \* delay of the cron pipeline's fetch
SyncJobsMaxRetries == 5    \* maxRetries of the fetch of /api/sync-jobs
SyncJobsDelayMs == 2000    \* delay of the fetch of /api/sync-jobs
VerifyMaxRetries == 3      \* maxRetries of the per-job fetch of /api/trigger-sync
VerifyDelayMs == 1000      \* delay of the per-job fetch of /api/trigger-sync
CronMaxRetries == 3        \* maxRetries of the cron pipeline's fetch

TickMs == OverloadBaseMs \div 2
BreakerRecoveryMs == RecoveryTicks * TickMs    \* SpecBreaker: the recoveryTimeout argument
RecoveryTimeout == recovery
BaseDelay == TickMs        \* the delay argument passed to withRetry
Null == 0 - 1              \* JavaScript null where a time is expected

Callers == {"w1", "w2"}

\* a factor that does not grow with the attempt
Pow2Flat(n) == 1

\* Math.pow(2, n)
Pow2(n) == IF n <= 0 THEN 1 ELSE 2 ^ n

-----------------------------------------------------------------------------
(* Errors.  An error is identified by what the handler's tests on its      *)
(* message can tell apart.                                                 *)

CircuitOpenError == "Circuit breaker is OPEN - too many recent failures"
Error520 == "Workiz API 520 error - server is experiencing issues"
ErrorOther == "Request timeout"
NoError == "none"
OpErrors == {Error520, ErrorOther}

\* a handler that does not recognise the breaker's rejection
IsCircuitOpenErrorNever(e) == FALSE

\* error.message.includes("Circuit breaker is OPEN")
IsCircuitOpenError(e) == e = CircuitOpenError

\* error.message.includes("520") || error.response.status === 520
Is520Error(e) == e = Error520

-----------------------------------------------------------------------------
(* CircuitBreaker *)

NewBreaker == [state |-> "CLOSED", failureCount |-> 0, lastFailureTime |-> Null]

\* Date.now() - this.lastFailureTime, null coerced to 0
Elapsed(b, t) == t - (IF b.lastFailureTime = Null THEN 0 ELSE b.lastFailureTime)

\* execute: the OPEN test; TRUE when the call is rejected
Rejects(b, t) == b.state = "OPEN" /\ ~(Elapsed(b, t) >= RecoveryTimeout)

\* execute: the breaker after the admission test of a call that is let through
Admit(b, t) ==
    IF b.state = "OPEN" /\ Elapsed(b, t) >= RecoveryTimeout
    THEN [b EXCEPT !.state = "HALF_OPEN"]
    ELSE b

OnSuccess(b) == [b EXCEPT !.failureCount = 0, !.state = "CLOSED"]

\* a breaker that opens one failure late
OpensAtLate(count, n) == count > n

\* onFailure: this.failureCount >= this.failureThreshold
OpensAt(count, n) == count >= n

\* an onFailure that does not record the time of the failure
OnFailureUnstamped(b, t, n) ==
    LET c == b.failureCount + 1
    IN [state |-> IF OpensAt(c, n) THEN "OPEN" ELSE b.state,
        failureCount |-> c,
        lastFailureTime |-> b.lastFailureTime]

OnFailure(b, t, n) ==
    LET c == b.failureCount + 1
    IN [state |-> IF OpensAt(c, n) THEN "OPEN" ELSE b.state,
        failureCount |-> c,
        lastFailureTime |-> t]

-----------------------------------------------------------------------------
(* RetryHandler.withRetry *)

\* JavaScript undefined, apart from every value an operation resolves to
Undefined == 0 - 2

IdleCall ==
    [pc |-> "idle", attempt |-> 0, maxRetries |-> 0, delay |-> 0, useCb |-> FALSE,
     wakeAt |-> 0, outcome |-> "none", result |-> Undefined, lastError |-> NoError,
     opCalls |-> 0, waits |-> <<>>, firstOk |-> 0]

\* a loop that runs one attempt too many
LoopContinuesOneMore(attempt, maxRetries) == attempt <= maxRetries + 1

\* the for loop's test
LoopContinues(attempt, maxRetries) == attempt <= maxRetries

\* the value the k-th invocation of the operation resolves to
OpResult(k) == k

\* a backoff that scales the caller's delay for every error
BackoffFromDelay(e, attempt, maxRetries, delay) ==
    IF ~Is520Error(e) /\ attempt = maxRetries THEN Null
    ELSE delay * Pow2(attempt - 1)

\* the wait chosen in the catch block; Null when the error is rethrown
Backoff(e, attempt, maxRetries, delay) ==
    IF Is520Error(e) THEN OverloadBaseMs * Pow2(attempt - 1)
    ELSE IF attempt = maxRetries THEN Null
    ELSE delay * Pow2(attempt - 1)

\* the catch block for error e of caller c
Caught(c, e) ==
    IF IsCircuitOpenError(e)
    THEN [w[c] EXCEPT !.pc = "done", !.outcome = "threw", !.lastError = e]
    ELSE LET wt == Backoff(e, w[c].attempt, w[c].maxRetries, w[c].delay)
         IN IF wt = Null
            THEN [w[c] EXCEPT !.pc = "done", !.outcome = "threw", !.lastError = e]
            ELSE [w[c] EXCEPT !.pc = "wait", !.lastError = e,
                              !.wakeAt = now + wt, !.waits = Append(@, wt)]

\* the circuitBreaker argument of each caller: w1 calls with or without a breaker,
\* w2 is a second pipeline on the shared breaker
BreakerChoice(c) == IF c = "w1" THEN BOOLEAN ELSE {TRUE}

\* a caller enters withRetry
StartRetry(c) ==
    /\ w[c].pc = "idle"
    /\ \E mr \in 1..MaxAttempts, ub \in BreakerChoice(c) :
          w' = [w EXCEPT ![c] = [IdleCall EXCEPT !.pc = "try", !.attempt = 1,
                                     !.maxRetries = mr, !.delay = BaseDelay, !.useCb = ub]]
    /\ UNCHANGED <<now, threshold, recovery, cb, streak, upstreamCalls, otherVars, syncVars>>

\* an admission test whose rejection restarts the cooldown
AdmissionStampingRejection(c) ==
    /\ w[c].pc = "try"
    /\ IF w[c].useCb /\ Rejects(cb, now)
       THEN /\ w' = [w EXCEPT ![c] = Caught(c, CircuitOpenError)]
            /\ cb' = [cb EXCEPT !.lastFailureTime = now]
            /\ UNCHANGED upstreamCalls
       ELSE /\ w' = [w EXCEPT ![c] = [@ EXCEPT !.pc = "op", !.opCalls = @ + 1]]
            /\ cb' = IF w[c].useCb THEN Admit(cb, now) ELSE cb
            /\ upstreamCalls' = IF w[c].useCb THEN upstreamCalls + 1 ELSE upstreamCalls

\* the try block up to the await: the breaker's admission test and the call of the operation
Admission(c) ==
    /\ w[c].pc = "try"
    /\ IF w[c].useCb /\ Rejects(cb, now)
       THEN /\ w' = [w EXCEPT ![c] = Caught(c, CircuitOpenError)]
            /\ UNCHANGED <<cb, upstreamCalls>>
       ELSE /\ w' = [w EXCEPT ![c] = [@ EXCEPT !.pc = "op", !.opCalls = @ + 1]]
            /\ cb' = IF w[c].useCb THEN Admit(cb, now) ELSE cb
            /\ upstreamCalls' = IF w[c].useCb THEN upstreamCalls + 1 ELSE upstreamCalls

Attempt(c) ==
    /\ Admission(c)
    /\ UNCHANGED <<now, threshold, recovery, streak, otherVars, syncVars>>

\* the operation resolves: onSuccess, and withRetry returns its value
OpSucceeds(c) ==
    /\ w[c].pc = "op"
    /\ w' = [w EXCEPT ![c] = [@ EXCEPT !.pc = "done", !.outcome = "returned",
                                       !.result = OpResult(w[c].opCalls),
                                       !.firstOk = IF @ = 0 THEN w[c].opCalls ELSE @]]
    /\ cb' = IF w[c].useCb THEN OnSuccess(cb) ELSE cb
    /\ streak' = IF w[c].useCb THEN 0 ELSE streak
    /\ UNCHANGED <<now, threshold, recovery, upstreamCalls, otherVars, syncVars>>

\* the operation rejects: onFailure, then the catch block
OpFails(c) ==
    /\ w[c].pc = "op"
    /\ \E e \in OpErrors : w' = [w EXCEPT ![c] = Caught(c, e)]
    /\ cb' = IF w[c].useCb THEN OnFailure(cb, now, threshold) ELSE cb
    /\ streak' = IF w[c].useCb THEN streak + 1 ELSE streak
    /\ UNCHANGED <<now, threshold, recovery, upstreamCalls, otherVars, syncVars>>

\* the backoff timer fires: attempt++ and the loop test; falling out of the loop returns undefined
WakeUp(c) ==
    /\ w[c].pc = "wait"
    /\ now >= w[c].wakeAt
    /\ w' = [w EXCEPT ![c] =
                IF LoopContinues(w[c].attempt + 1, w[c].maxRetries)
                THEN [@ EXCEPT !.pc = "try", !.attempt = @ + 1, !.wakeAt = 0]
                ELSE [@ EXCEPT !.pc = "done", !.attempt = @ + 1, !.wakeAt = 0,
                               !.outcome = "returned", !.result = Undefined]]
    /\ UNCHANGED <<now, threshold, recovery, cb, streak, upstreamCalls, otherVars, syncVars>>

ClockAwaited ==
    \/ cb.state = "OPEN"
    \/ \E c \in DOMAIN w : w[c].pc = "wait"

\* Time passes.  The clock is read only by a pending backoff timer and by the OPEN test,
\* so it is advanced only while one of them is waiting for it.
Tick ==
    /\ now < MaxTicks * TickMs
    /\ ClockAwaited
    /\ now' = now + TickMs
    /\ UNCHANGED <<threshold, recovery, cb, w, streak, upstreamCalls, otherVars, syncVars>>

-----------------------------------------------------------------------------
(* Splitting jobs into batches *)

Min(a, b) == IF a <= b THEN a ELSE b

\* a slice that drops the last element of its range
SliceOffByOne(s, a, b) == SubSeq(s, a + 1, Min(b - 1, Len(s)))

\* Array.prototype.slice(a, b) for 0 <= a <= b
Slice(s, a, b) == SubSeq(s, a + 1, Min(b, Len(s)))

\* for (let i = 0; i < jobs.length; i += batchSize) batches.push(jobs.slice(i, i + batchSize))
RECURSIVE ChunkFrom(_, _, _)
ChunkFrom(jobs, batchSize, i) ==
    IF i < Len(jobs)
    THEN <<Slice(jobs, i, i + batchSize)>> \o ChunkFrom(jobs, batchSize, i + batchSize)
    ELSE <<>>

SplitIntoBatches(jobs, batchSize) == ChunkFrom(jobs, batchSize, 0)

InitChunkIdle == ck = [pc |-> "off", jobs |-> <<>>, batchSize |-> 1, batches |-> <<>>]

\* the splitting loop run on the jobs and batch size drawn by InitChunk
Split ==
    /\ ck.pc = "input"
    /\ ck' = [ck EXCEPT !.pc = "done", !.batches = SplitIntoBatches(ck.jobs, ck.batchSize)]
    /\ UNCHANGED <<cbVars, syncVars, st, orch, sj, par>>

InitBreakerIdle ==
    /\ now = 0
    /\ threshold = 1
    /\ recovery = BreakerRecoveryMs
    /\ cb = NewBreaker
    /\ w = [c \in Callers |-> IdleCall]
    /\ streak = 0
    /\ upstreamCalls = 0


-----------------------------------------------------------------------------
(* The account pipelines: POST /api/sync/parallel/init,                    *)
(* POST /api/sync/parallel/account/:accountId and GET /api/cron/sync-jobs  *)

Accounts == {"a1", "a2"}
TaskSeq == <<"t1", "t2">>
Tasks == {"t1", "t2"}
NoSession == "none"
CronSession == "cron"
ManualSession == "man"
SessionIds == {CronSession, ManualSession}

\* An account id as the ObjectId the accounts collection holds, and as the string
\* it has in a request path.  The store compares values of the two types as unequal.
Oid(a) == <<"ObjectId", a>>
Str(a) == <<"string", a>>

\* the accountId a pipeline puts in its session filters
SessionRef(kind, a) == IF kind = "cron" THEN Oid(a) ELSE Str(a)

\* an element of the session's accounts array, as init and the cron handler create it
NewAccountElem(a) ==
    [accountId |-> Oid(a), status |-> "pending", progress |-> 0, batches |-> <<>>,
     totalJobs |-> 0, processedJobs |-> 0, totalBatches |-> Null,
     updatedJobs |-> Null, failedJobs |-> Null, error |-> NoError]

NoDoc ==
    [exists |-> FALSE, overallStatus |-> "none", accounts |-> <<>>,
     successfulAccounts |-> Null, failedAccounts |-> Null]

NewSession(accts) ==
    [exists |-> TRUE, overallStatus |-> "initializing",
     accounts |-> [i \in 1..Len(accts) |-> NewAccountElem(accts[i])],
     successfulAccounts |-> Null, failedAccounts |-> Null]

\* the indexes of the accounts elements that the filter "accounts.accountId": ref matches
Matching(accts, ref) == {i \in 1..Len(accts) : accts[i].accountId = ref}

FirstOf(S) == CHOOSE i \in S : \A j \in S : i <= j

\* an update that adds the numeric counters to the stored ones instead of replacing them
SetAdding(e, fields) ==
    [f \in DOMAIN e |->
        IF f \notin DOMAIN fields THEN e[f]
        ELSE IF f \in {"processedJobs", "failedJobs"}
             THEN (IF e[f] = Null THEN 0 ELSE e[f]) + fields[f]
             ELSE fields[f]]

\* {$set: fields} applied to an array element: the named fields are replaced
Set(e, fields) ==
    [f \in DOMAIN e |-> IF f \in DOMAIN fields THEN fields[f] ELSE e[f]]

\* updateOne({sessionId, "accounts.accountId": ref}, {$set: {"accounts.$.<field>": ...}}):
\* the first matching element is updated; a document with no matching element is not matched
SetPositional(doc, ref, fields) ==
    IF ~doc.exists \/ Matching(doc.accounts, ref) = {}
    THEN doc
    ELSE LET i == FirstOf(Matching(doc.accounts, ref))
         IN [doc EXCEPT !.accounts[i] = Set(doc.accounts[i], fields)]

\* updateOne(..., {$set: {"accounts.$[account].batches.$[batch].<field>": ...}},
\*           {arrayFilters: [{"account.accountId": ref}, {"batch.batchIndex": b}]})
SetFiltered(doc, ref, b, fields) ==
    IF ~doc.exists \/ Matching(doc.accounts, ref) = {}
    THEN doc
    ELSE [doc EXCEPT !.accounts =
            [i \in 1..Len(doc.accounts) |->
                LET e == doc.accounts[i]
                IN IF e.accountId = ref
                   THEN [e EXCEPT !.batches =
                            [k \in 1..Len(e.batches) |->
                                IF e.batches[k].batchIndex = b
                                THEN Set(e.batches[k], fields) ELSE e.batches[k]]]
                   ELSE e]]

\* Math.round(x / y * 100) for x >= 0, y > 0
RoundPercent(x, y) == (200 * x + y) \div (2 * y)

ElemProcessing == [status |-> "processing"]

ElemBatchInfo(jobs, batches) ==
    [totalJobs |-> Len(jobs),
     totalBatches |-> Len(batches),
     batches |-> [k \in 1..Len(batches) |->
                    [batchIndex |-> k - 1, jobCount |-> Len(batches[k]),
                     status |-> "pending", uuids |-> batches[k],
                     processedJobs |-> Null, failedJobs |-> Null]]]

BatchProcessing == [status |-> "processing"]

BatchCompleted(len, updatedJobsCount) ==
    [status |-> "completed", processedJobs |-> len,
     failedJobs |-> len - updatedJobsCount]

ElemProgress(processedJobs, total) ==
    [processedJobs |-> processedJobs, progress |-> RoundPercent(processedJobs, total)]

ElemCompleted(processedJobs, updatedJobsCount, failedUpdatesCount) ==
    [status |-> "completed", processedJobs |-> processedJobs,
     updatedJobs |-> updatedJobsCount, failedJobs |-> failedUpdatesCount]

ElemFailed(msg) == [status |-> "failed", error |-> msg]

\* the jobs (UUIDs) an upstream fetch of n jobs returns
Recent(n) == [j \in 1..n |-> j]

RECURSIVE SetToSeq(_)
SetToSeq(S) ==
    IF S = {} THEN <<>>
    ELSE LET m == CHOOSE x \in S : \A y \in S : x <= y
         IN <<m>> \o SetToSeq(S \ {m})

\* the cron pipeline's allJobsToUpdate: the recent jobs, then the stored jobs of the
\* account that are not among them
AllJobsToUpdate(recent, a, store) ==
    recent \o SetToSeq({u \in 1..(MaxJobs + 1) :
                          <<a, u>> \in store /\ \A j \in 1..Len(recent) : recent[j] # u})

\* the jobs whose CreatedDate is before the cron cleanup's cutoff
IsOld(u) == u = 1

IdleTask ==
    [pc |-> "idle", kind |-> "none", account |-> "a1", session |-> NoSession,
     batchSize |-> 1, jobs |-> <<>>, batches |-> <<>>, batchIndex |-> 0, jobIndex |-> 0,
     processedJobs |-> 0, updatedJobsCount |-> 0, failedUpdatesCount |-> 0,
     acked |-> 0, skip |-> {}]

\* a pipeline that has ended: its locals are gone; what it recorded complete is kept
\* for the invocations that follow it
Ended(x, pc) ==
    [IdleTask EXCEPT !.pc = pc, !.kind = x.kind, !.account = x.account,
                     !.session = x.session,
                     !.batches = IF pc = "killed" THEN x.batches ELSE <<>>,
                     !.acked = IF pc = "killed" THEN x.acked ELSE 0]

\* the session document that pipeline x tracks
Doc(x) == IF x.session = NoSession THEN NoDoc ELSE sessions[x.session]

\* the sessions after pipeline x's update has left its document as doc
Tracked(x, doc) ==
    IF x.session = NoSession THEN sessions
    ELSE [sessions EXCEPT ![x.session] = doc]

Ref(x) == SessionRef(x.kind, x.account)

Range(f) == {f[i] : i \in DOMAIN f}

\* the batch size of the cron pipeline (15 in the source, scaled below the model's job
\* counts so that a cron run has several batches)
CronBatchSize == MaxBatchSize - 1

\* the UUIDs of the batches for which task y has executed the completion update
RecordedUuids(y) == UNION {Range(task[y].batches[k]) : k \in 1..task[y].acked}

\* the jobs of the batches that earlier, interrupted invocations for account a and
\* session s had finished and executed the completion update for
Interrupted(a, s) ==
    IF s = NoSession THEN {}
    ELSE UNION {RecordedUuids(y) : y \in {z \in Tasks : /\ task[z].pc = "killed"
                                                          /\ task[z].account = a
                                                          /\ task[z].session = s}}

\* the loop test on entering or re-entering the batch loop
LoopPc(x) == IF x.batchIndex < Len(x.batches) THEN "batchStart" ELSE "final"

\* the pipeline's own steps around each session update
AfterBatchInfo(x) == [x EXCEPT !.pc = LoopPc(x)]
AfterBatchStart(x) == [x EXCEPT !.pc = "item", !.jobIndex = 0]
AfterBatchComplete(x) == [x EXCEPT !.pc = "progress", !.acked = @ + 1]
AfterProgress(x) == LET y == [x EXCEPT !.batchIndex = @ + 1] IN [y EXCEPT !.pc = LoopPc(y)]
AfterFinal(x) == [x EXCEPT !.pc = IF x.kind = "cron" THEN "cleanup" ELSE "history"]

\* The next position at which the pipeline awaits.  Every session update is guarded by
\* if (sessionId): a pipeline without a session runs through it without yielding.
RECURSIVE Arrive(_)
Arrive(x) ==
    IF x.session # NoSession THEN x
    ELSE CASE x.pc = "markProcessing" -> Arrive([x EXCEPT !.pc = "fetch"])
           [] x.pc = "batchInfo" -> Arrive(AfterBatchInfo(x))
           [] x.pc = "batchStart" -> Arrive(AfterBatchStart(x))
           [] x.pc = "batchComplete" -> Arrive([x EXCEPT !.pc = "progress"])
           [] x.pc = "progress" -> Arrive(AfterProgress(x))
           [] x.pc = "final" -> Arrive(AfterFinal(x))
           [] OTHER -> x

\* pipelines take the tasks in the order in which they start
FirstIdle == CHOOSE i \in 1..(Len(TaskSeq) + 1) :
                /\ i <= Len(TaskSeq) => task[TaskSeq[i]].pc = "idle"
                /\ \A j \in 1..(i - 1) : task[TaskSeq[j]].pc # "idle"

\* POST /api/sync/parallel/init
InitSession ==
    /\ ~sessions[ManualSession].exists
    /\ sessions' = [sessions EXCEPT ![ManualSession] = NewSession(accountsDb)]
    /\ UNCHANGED <<cbVars, otherVars, accountsDb, jobsStore, history, cron, task>>

\* POST /api/sync/parallel/account/:accountId arrives and finds its account
ManualStart(x) ==
    /\ FirstIdle <= Len(TaskSeq)
    /\ x = TaskSeq[FirstIdle]
    /\ \E a \in Range(accountsDb), s \in {NoSession, ManualSession}, k \in 1..MaxBatchSize :
          /\ s = ManualSession => sessions[s].exists
          /\ task' = [task EXCEPT ![x] =
                        Arrive([IdleTask EXCEPT !.pc = "markProcessing", !.kind = "manual",
                                                !.account = a, !.session = s, !.batchSize = k,
                                                !.skip = Interrupted(a, s)])]
    /\ UNCHANGED <<cbVars, otherVars, accountsDb, sessions, jobsStore, history, cron>>

\* GET /api/cron/sync-jobs: the session is inserted and one pipeline per account is started
CronStart ==
    /\ cron = "idle"
    /\ FirstIdle + Len(accountsDb) - 1 <= Len(TaskSeq)
    /\ sessions' = [sessions EXCEPT ![CronSession] = NewSession(accountsDb)]
    /\ task' = [x \in Tasks |->
                  IF \E i \in 1..Len(accountsDb) : TaskSeq[FirstIdle + i - 1] = x
                  THEN LET i == CHOOSE i \in 1..Len(accountsDb) : TaskSeq[FirstIdle + i - 1] = x
                       IN [IdleTask EXCEPT !.pc = "markProcessing", !.kind = "cron",
                                           !.account = accountsDb[i],
                                           !.session = CronSession,
                                           !.batchSize = CronBatchSize]
                  ELSE task[x]]
    /\ cron' = "running"
    /\ UNCHANGED <<cbVars, otherVars, accountsDb, jobsStore, history>>

\* "accounts.$.status": "processing"
MarkProcessing(x) ==
    /\ task[x].pc = "markProcessing"
    /\ sessions' = Tracked(task[x], SetPositional(Doc(task[x]), Ref(task[x]), ElemProcessing))
    /\ task' = [task EXCEPT ![x].pc = "fetch"]
    /\ UNCHANGED <<cbVars, otherVars, accountsDb, jobsStore, history, cron>>

\* the upstream fetch resolves with n jobs; the jobs are split into batches
FetchOk(x) ==
    /\ task[x].pc = "fetch"
    /\ \E n \in 0..MaxJobs :
          LET jobs == IF task[x].kind = "cron"
                      THEN AllJobsToUpdate(Recent(n), task[x].account, jobsStore)
                      ELSE Recent(n)
          IN task' = [task EXCEPT ![x] =
                        Arrive([@ EXCEPT !.pc = "batchInfo", !.jobs = jobs,
                                         !.batches = SplitIntoBatches(jobs, task[x].batchSize)])]
    /\ UNCHANGED <<cbVars, otherVars, accountsDb, sessions, jobsStore, history, cron>>

\* the upstream fetch throws, or its response is rejected
FetchFails(x) ==
    /\ task[x].pc = "fetch"
    /\ task' = [task EXCEPT ![x] = Ended(task[x], "catch")]
    /\ UNCHANGED <<cbVars, otherVars, accountsDb, sessions, jobsStore, history, cron>>

\* "accounts.$.totalJobs", "accounts.$.totalBatches", "accounts.$.batches"
BatchInfo(x) ==
    /\ task[x].pc = "batchInfo"
    /\ sessions' = Tracked(task[x], SetPositional(Doc(task[x]), Ref(task[x]),
                              ElemBatchInfo(task[x].jobs, task[x].batches)))
    /\ task' = [task EXCEPT ![x] = AfterBatchInfo(task[x])]
    /\ UNCHANGED <<cbVars, otherVars, accountsDb, jobsStore, history, cron>>

\* the batch's status is set to "processing"; the first upsert of the batch is issued
BatchStart(x) ==
    /\ task[x].pc = "batchStart"
    /\ sessions' = Tracked(task[x], SetFiltered(Doc(task[x]), Ref(task[x]),
                              task[x].batchIndex, BatchProcessing))
    /\ task' = [task EXCEPT ![x] = AfterBatchStart(task[x])]
    /\ UNCHANGED <<cbVars, otherVars, accountsDb, jobsStore, history, cron>>

CurrentBatch(x) == x.batches[x.batchIndex + 1]
CurrentJob(x) == CurrentBatch(x)[x.jobIndex + 1]

\* the upsert of the current job resolves (ok) or rejects; the rejection is caught per job
Item(x) ==
    /\ task[x].pc = "item"
    /\ \E ok \in BOOLEAN :
          /\ jobsStore' = IF ok THEN jobsStore \cup {<<task[x].account, CurrentJob(task[x])>>}
                          ELSE jobsStore
          /\ task' = [task EXCEPT ![x] =
                        Arrive([@ EXCEPT !.updatedJobsCount = IF ok THEN @ + 1 ELSE @,
                                         !.failedUpdatesCount = IF ok THEN @ ELSE @ + 1,
                                         !.processedJobs = @ + 1,
                                         !.jobIndex = @ + 1,
                                         !.pc = IF task[x].jobIndex + 1 < Len(CurrentBatch(task[x]))
                                                THEN "item" ELSE "batchComplete"])]
    /\ UNCHANGED <<cbVars, otherVars, accountsDb, sessions, history, cron>>

\* the update that records the current batch of pipeline x as completed
RecordBatchCompleted(d, x) ==
    SetFiltered(d, Ref(x), x.batchIndex,
                BatchCompleted(Len(CurrentBatch(x)), x.updatedJobsCount))

\* the update that records the progress of pipeline x
RecordProgress(d, x) ==
    SetPositional(d, Ref(x), ElemProgress(x.processedJobs, Len(x.jobs)))

\* the batch's status is set to "completed" with its counts
BatchComplete(x) ==
    /\ task[x].pc = "batchComplete"
    /\ sessions' = Tracked(task[x], RecordBatchCompleted(Doc(task[x]), task[x]))
    /\ task' = [task EXCEPT ![x] = AfterBatchComplete(task[x])]
    /\ UNCHANGED <<cbVars, otherVars, accountsDb, jobsStore, history, cron>>

\* "accounts.$.processedJobs", "accounts.$.progress"; then batchIndex++ and the loop test
Progress(x) ==
    /\ task[x].pc = "progress"
    /\ sessions' = Tracked(task[x], RecordProgress(Doc(task[x]), task[x]))
    /\ task' = [task EXCEPT ![x] = AfterProgress(task[x])]
    /\ UNCHANGED <<cbVars, otherVars, accountsDb, jobsStore, history, cron>>

\* "accounts.$.status": "completed" with the final counts
Final(x) ==
    /\ task[x].pc = "final"
    /\ sessions' = Tracked(task[x], SetPositional(Doc(task[x]), Ref(task[x]),
                              ElemCompleted(task[x].processedJobs,
                                            task[x].updatedJobsCount,
                                            task[x].failedUpdatesCount)))
    /\ task' = [task EXCEPT ![x] = AfterFinal(task[x])]
    /\ UNCHANGED <<cbVars, otherVars, accountsDb, jobsStore, history, cron>>

\* the cron pipeline's deleteMany of the account's jobs older than the cutoff
Cleanup(x) ==
    /\ task[x].pc = "cleanup"
    /\ jobsStore' = {j \in jobsStore : ~(j[1] = task[x].account /\ IsOld(j[2]))}
    /\ task' = [task EXCEPT ![x].pc = "history"]
    /\ UNCHANGED <<cbVars, otherVars, accountsDb, sessions, history, cron>>

\* syncHistory.insertOne, then the response (the pipeline's result)
History(x) ==
    /\ task[x].pc = "history"
    /\ history' = [history EXCEPT ![task[x].account] = @ + 1]
    /\ task' = [task EXCEPT ![x] = Ended(task[x], "done")]
    /\ UNCHANGED <<cbVars, otherVars, accountsDb, sessions, jobsStore, cron>>

\* the positions at which the pipeline awaits a store operation outside the per-job try
AwaitsStore(x) ==
    x.pc \in {"markProcessing", "batchInfo", "batchStart", "batchComplete",
              "progress", "final", "cleanup", "history"}

\* an awaited store operation rejects: control passes to the catch block
StoreThrows(x) ==
    /\ AwaitsStore(task[x])
    /\ task' = [task EXCEPT ![x] = Ended(task[x], "catch")]
    /\ UNCHANGED <<cbVars, otherVars, accountsDb, sessions, jobsStore, history, cron>>

\* the catch block: "accounts.$.status": "failed", then the error response
Catch(x) ==
    /\ task[x].pc = "catch"
    /\ sessions' = Tracked(task[x], SetPositional(Doc(task[x]), Ref(task[x]),
                              ElemFailed("error")))
    /\ task' = [task EXCEPT ![x] = Ended(task[x], "failed")]
    /\ UNCHANGED <<cbVars, otherVars, accountsDb, jobsStore, history, cron>>

\* the update in the catch block rejects as well
CatchThrows(x) ==
    /\ task[x].pc = "catch"
    /\ task[x].session # NoSession
    /\ task' = [task EXCEPT ![x] = Ended(task[x], "rejected")]
    /\ UNCHANGED <<cbVars, otherVars, accountsDb, sessions, jobsStore, history, cron>>

Settled == {"idle", "done", "failed", "rejected", "killed"}

\* the platform ends a manual invocation that is still running
Kill(x) ==
    /\ task[x].kind = "manual"
    /\ task[x].pc \notin Settled
    /\ task' = [task EXCEPT ![x] = Ended(task[x], "killed")]
    /\ UNCHANGED <<cbVars, otherVars, accountsDb, sessions, jobsStore, history, cron>>

CronTasks == {x \in Tasks : task[x].kind = "cron"}

\* Promise.allSettled resolves; the cron handler writes the session's overall status
CronFinish ==
    /\ cron = "running"
    /\ \A x \in CronTasks : task[x].pc \in {"done", "failed", "rejected"}
    /\ sessions' = [sessions EXCEPT ![CronSession] =
                      [@ EXCEPT !.overallStatus = "completed",
                                !.successfulAccounts =
                                    Cardinality({x \in CronTasks : task[x].pc = "done"}),
                                !.failedAccounts =
                                    Cardinality({x \in CronTasks : task[x].pc # "done"})]]
    /\ cron' = "done"
    /\ UNCHANGED <<cbVars, otherVars, accountsDb, jobsStore, history, task>>

InitSyncIdle ==
    /\ accountsDb = <<>>
    /\ sessions = [s \in SessionIds |-> NoDoc]
    /\ jobsStore = {}
    /\ history = [a \in Accounts |-> 0]
    /\ cron = "idle"
    /\ task = [x \in Tasks |-> IdleTask]

\* the statuses an accounts element takes
Statuses == {"pending", "processing", "completed", "failed"}

CountStatus(accts, status) ==
    Cardinality({i \in 1..Len(accts) : accts[i].status = status})

\* a derivation that reports failed as soon as one account has failed
OverallStatusAnyFailed(accts) ==
    IF CountStatus(accts, "completed") = Len(accts) THEN "completed"
    ELSE IF CountStatus(accts, "failed") > 0 THEN "failed"
    ELSE IF CountStatus(accts, "completed") + CountStatus(accts, "failed") = Len(accts)
    THEN "completed_with_errors"
    ELSE "processing"

\* GET /api/sync/parallel/status/:sessionId: the overall status it derives
OverallStatus(accts) ==
    IF CountStatus(accts, "completed") = Len(accts) THEN "completed"
    ELSE IF CountStatus(accts, "failed") = Len(accts) THEN "failed"
    ELSE IF CountStatus(accts, "completed") + CountStatus(accts, "failed") = Len(accts)
    THEN "completed_with_errors"
    ELSE "processing"

\* GET /api/sync/parallel/sessions: the overallStatus it lists is the stored field
ListedStatus(doc) == doc.overallStatus

InitStatusIdle == st = [session |-> NoDoc, resp |-> "none", repeats |-> 0]

\* a status endpoint that stamps the session it reads
GetStatusStamping ==
    /\ st.resp = "none" \/ st.repeats < MaxStatusRepeats
    /\ st' = [st EXCEPT !.resp = IF ~st.session.exists THEN "404"
                                 ELSE OverallStatus(st.session.accounts),
                        !.repeats = IF st.resp = "none" THEN @ ELSE @ + 1,
                        !.session = IF st.session.exists
                                    THEN [@ EXCEPT !.overallStatus = "read"] ELSE @]
    /\ UNCHANGED <<cbVars, ck, orch, sj, syncVars, par>>

\* the status endpoint answers for the session document it found; st.resp is the answer
\* to the latest request while no write has followed it, and st.repeats counts the
\* requests made while such an answer stood
GetStatus ==
    /\ st.resp = "none" \/ st.repeats < MaxStatusRepeats
    /\ st' = [st EXCEPT !.resp = IF ~st.session.exists THEN "404"
                                 ELSE OverallStatus(st.session.accounts),
                        !.repeats = IF st.resp = "none" THEN @ ELSE @ + 1]
    /\ UNCHANGED <<cbVars, ck, orch, sj, syncVars, par>>

\* a pipeline writes the status of its account into the session
SessionWrite ==
    /\ st.session.exists
    /\ \E i \in 1..Len(st.session.accounts), s \in Statuses :
          /\ st.session.accounts[i].status # s
          /\ st' = [st EXCEPT !.session.accounts[i].status = s, !.resp = "none"]
    /\ UNCHANGED <<cbVars, ck, orch, sj, syncVars, par>>

------------------------------------------------------------------------------
(* The cron run as an orchestration of account pipelines that fetch through *)
(* the shared workizCircuitBreaker.  The batches of an account are one step. *)

Entities == 1..MaxEntities

\* how the upstream answers an account's calls: with data, with status 520, or not in time
Upstreams == {"ok", Error520, ErrorOther}

TypeErrorUndefined == "Cannot read properties of undefined (reading 'ok')"
StoreError == "store error"

IdleOrch ==
    [pc |-> "idle",
     up |-> [e \in Entities |-> "ok"],
     status |-> [e \in Entities |-> "none"],
     error |-> [e \in Entities |-> NoError],
     historyRecords |-> [e \in Entities |-> 0],
     overallStatus |-> "none", successfulAccounts |-> Null, failedAccounts |-> Null,
     userAgent |-> << >>, response |-> 0]

InitOrchIdle == orch = IdleOrch

\* the User-Agent header of a request as the words it is made of; << >> is a missing
\* or empty header
UserAgents == {<< >>, <<"curl", "8.0">>, <<"Mozilla", "Vercel">>, <<"vercel-cron", "1.0">>}

\* userAgent.includes(marker)
Includes(userAgent, marker) == \E i \in 1..Len(userAgent) : userAgent[i] = marker

CronAuthorizedAnyAgent(userAgent) == userAgent # << >>

\* the negation of: !userAgent || !userAgent.includes("vercel-cron")
CronAuthorized(userAgent) == userAgent # << >> /\ Includes(userAgent, "vercel-cron")

\* the cron handler answers 403 to a request that is not from the scheduler
OrchReject ==
    /\ orch.pc = "idle"
    /\ ~CronAuthorized(orch.userAgent)
    /\ orch' = [orch EXCEPT !.pc = "rejected", !.response = 403]
    /\ UNCHANGED <<cbVars, ck, st, sj, syncVars, par>>

\* the cron handler inserts the session: every account pending
OrchStart ==
    /\ orch.pc = "idle"
    /\ CronAuthorized(orch.userAgent)
    /\ orch' = [orch EXCEPT !.pc = "running",
                            !.status = [e \in Entities |-> "pending"],
                            !.overallStatus = "initializing"]
    /\ UNCHANGED <<cbVars, ck, st, sj, syncVars, par>>

\* "accounts.$.status": "processing" is written, then the pipeline calls
\* RetryHandler.withRetry(() => fetchWithTimeout(...), 3, 2000, workizCircuitBreaker)
OrchFetch(e) ==
    /\ orch.pc = "running"
    /\ orch.status[e] = "pending"
    /\ orch' = [orch EXCEPT !.status[e] = "processing"]
    /\ w' = [w EXCEPT ![e] = [IdleCall EXCEPT !.pc = "try", !.attempt = 1,
                                 !.maxRetries = CronMaxRetries, !.delay = CronDelayMs,
                                 !.useCb = TRUE]]
    /\ UNCHANGED <<now, threshold, recovery, cb, streak, upstreamCalls, ck, st, sj, syncVars, par>>

OrchAttempt(e) == Attempt(e)

\* the upstream answers the account's call with data
OrchOpSucceeds(e) ==
    /\ orch.up[e] = "ok"
    /\ OpSucceeds(e)

\* the upstream answers the account's call with its failure
OrchOpFails(e) ==
    /\ orch.up[e] # "ok"
    /\ OpFails(e)
    /\ w'[e].lastError = orch.up[e]

OrchWakeUp(e) == WakeUp(e)

\* the moments at which a pending timer fires or the OPEN breaker's timeout has passed
Deadlines ==
    {w[c].wakeAt : c \in {d \in DOMAIN w : w[d].pc = "wait"}}
        \cup (IF cb.state = "OPEN" THEN {cb.lastFailureTime + RecoveryTimeout} ELSE {})
        \cup {sj.timerAt}

\* Time passes up to the next such moment.
TimerTick ==
    /\ \E t \in Deadlines :
          /\ t > now
          /\ \A u \in Deadlines : u > now => t <= u
          /\ now' = t
    /\ UNCHANGED <<threshold, recovery, cb, w, streak, upstreamCalls, otherVars, syncVars>>

\* withRetry returned a response: the jobs are written batch by batch, the final status
\* and the history record are written and the pipeline returns success; or a store
\* operation outside the per-job try rejects and the catch block records the failure
OrchSynced(e) ==
    /\ orch.status[e] = "processing"
    /\ w[e].pc = "done" /\ w[e].outcome = "returned" /\ w[e].result # Undefined
    /\ \/ orch' = [orch EXCEPT !.status[e] = "completed",
                               !.historyRecords[e] = @ + 1]
       \/ orch' = [orch EXCEPT !.status[e] = "failed", !.error[e] = StoreError]
    /\ UNCHANGED <<cbVars, ck, st, sj, syncVars, par>>

\* withRetry threw, or returned undefined and response.ok throws: the catch block
OrchCatch(e) ==
    /\ orch.status[e] = "processing"
    /\ w[e].pc = "done"
    /\ \/ w[e].outcome = "threw"
       \/ w[e].outcome = "returned" /\ w[e].result = Undefined
    /\ orch' = [orch EXCEPT !.status[e] = "failed",
                            !.error[e] = IF w[e].outcome = "threw" THEN w[e].lastError
                                         ELSE TypeErrorUndefined]
    /\ UNCHANGED <<cbVars, ck, st, sj, syncVars, par>>

\* Promise.allSettled, then the overall update of the session
OrchFinish ==
    /\ orch.pc = "running"
    /\ \A e \in Entities : orch.status[e] \in {"completed", "failed"}
    /\ orch' = [orch EXCEPT
                  !.pc = "done",
                  !.overallStatus = "completed",
                  !.successfulAccounts =
                      Cardinality({e \in Entities : orch.status[e] = "completed"}),
                  !.failedAccounts =
                      Cardinality({e \in Entities : orch.status[e] = "failed"})]
    /\ UNCHANGED <<cbVars, ck, st, sj, syncVars, par>>

-----------------------------------------------------------------------------
(* The reconciliation of the jobs store of one account:                     *)
(* POST /api/sync-jobs/:accountId, POST /api/trigger-sync/:accountId and the per-job loop
   of POST /api/update-account-jobs/:accountId and GET /api/cron/update-jobs-uuid *)

Uuids == 1..MaxUuids

\* what the upstream answers to job/all: a JSON list, a JSON body without flag or data,
\* status 200 with an HTML error page, status 520, another error status with an HTML
\* error page, status 429, another error status
ListKinds ==
    {"data", "invalid", "html200", "status520", "htmlError", "status429", "otherError"}

\* what the upstream answers to job/get/<UUID>: the job, a JSON body without flag or
\* data, status 200 with an HTML error page, status 520, status 429, another error status
GetKinds == {"data", "nodata", "html200", "status520", "status429", "otherError"}

\* the handlers that verify each stored job by its UUID
PerJobHandlers == {"trigger-sync", "update-account-jobs"}

\* the wait inside the wrapped operation before it throws: 60 s on status 429 in the
\* per-job call of the update handlers, none anywhere else
RateLimitWait(h, kind) ==
    IF h = "update-account-jobs" /\ kind = "status429" THEN 60000 ELSE 0

\* the delay argument of the per-job withRetry
VerifyDelay(h) == IF h = "trigger-sync" THEN VerifyDelayMs ELSE 2000

\* the delay at the end of the try block of a job
ItemDelay(h) == IF h = "trigger-sync" THEN 100 ELSE 6000

\* DELAY_BETWEEN_BATCHES
BatchDelay(h) == IF h = "trigger-sync" THEN 60000 ELSE 15000

\* BATCH_SIZE (29 and 10 in the source, scaled so that the jobs make two batches)
JobsBatchSize == MaxUuids - 1

\* the wrapped operation returns the response: fetchWithTimeout did not throw and resp.ok
Resolves(kind) == kind \in {"data", "invalid", "nodata", "html200"}

\* the error the wrapped operation throws otherwise: status 520 (fetchWithTimeout) and
\* an HTML error page under an error status give the 520 message
ThrownFor(kind) == IF kind \in {"status520", "htmlError"} THEN Error520 ELSE ErrorOther

\* response.json() parses the body
ParsesAsJson(kind) == kind \in {"data", "invalid", "nodata"}

\* a breaker that earlier requests have left open
OpenBreaker ==
    [state |-> "OPEN", failureCount |-> WorkizThreshold, lastFailureTime |-> 0]

\* a cutoff test that every job passes
IsExpiredAlways(x, u) == TRUE

\* the job's business date is before the handler's cutoff
IsExpired(x, u) == u \in x.old

IdleJobs ==
    [handler |-> "none", pc |-> "idle", up |-> "data", vup |-> "data",
     R |-> {}, S0 |-> {}, old |-> {}, store |-> {}, queue |-> <<>>, verified |-> {},
     parsed |-> FALSE, historyRecords |-> 0, resp |-> 0,
     total |-> 0, failed |-> {}, timerAt |-> 0, calledAt |-> Null,
     updated |-> {}, startTime |-> 0, other |-> {}, deleted |-> {}]

InitJobsIdle == sj = IdleJobs

\* the kind of answer the call in flight gets
CurrentKind == IF sj.pc = "verify" THEN sj.vup ELSE sj.up

\* the try block of the handler's withRetry; a call that is let through reaches the
\* upstream now, and its answer arms the rate-limit timer of the wrapped operation
JobsAttempt ==
    /\ Admission("sj")
    /\ sj' = IF w'["sj"].pc = "op"
             THEN [sj EXCEPT !.calledAt = now,
                             !.timerAt = now + RateLimitWait(sj.handler, CurrentKind)]
             ELSE sj
    /\ UNCHANGED <<now, threshold, recovery, streak, ck, st, orch, par, syncVars>>

JobsOpSucceeds ==
    /\ Resolves(CurrentKind)
    /\ OpSucceeds("sj")

JobsOpFails ==
    /\ ~Resolves(CurrentKind)
    /\ now >= sj.timerAt
    /\ OpFails("sj")
    /\ w'["sj"].lastError = ThrownFor(CurrentKind)

JobsWakeUp == WakeUp("sj")

\* the handler responds with HTTP status code
Responded(x, code) == [x EXCEPT !.pc = "done", !.resp = code]

\* the catch block of /api/sync-jobs for an error other than the breaker's rejection:
\* a history record with status error, then the 500 response
SjCaught(x) == Responded([x EXCEPT !.historyRecords = @ + 1], 500)

\* POST /api/sync-jobs/:accountId: the account is found and the jobs are fetched with
\* RetryHandler.withRetry(..., 5, 2000, workizCircuitBreaker)
SjRequest ==
    /\ sj.handler = "sync-jobs" /\ sj.pc = "start"
    /\ sj' = [sj EXCEPT !.pc = "fetch"]
    /\ w' = [w EXCEPT !["sj"] = [IdleCall EXCEPT !.pc = "try", !.attempt = 1,
                                    !.maxRetries = SyncJobsMaxRetries,
                                    !.delay = SyncJobsDelayMs, !.useCb = TRUE]]
    /\ UNCHANGED <<now, threshold, recovery, cb, streak, upstreamCalls,
                   ck, st, orch, syncVars, par>>

\* withRetry has ended: the 503 response for the breaker's rejection, the catch block for
\* another error, for the undefined it returns and for a body that is not JSON, the 500
\* response for a body without flag or data, the early response when no job is left,
\* or on to the upsert
SjParse ==
    /\ sj.handler = "sync-jobs" /\ sj.pc = "fetch"
    /\ w["sj"].pc = "done"
    /\ sj' = IF w["sj"].outcome = "threw"
             THEN IF IsCircuitOpenError(w["sj"].lastError)
                  THEN Responded(sj, 503)
                  ELSE SjCaught(sj)
             ELSE IF w["sj"].result = Undefined THEN SjCaught(sj)
             ELSE IF ~ParsesAsJson(sj.up) THEN SjCaught(sj)
             ELSE IF sj.up = "invalid" THEN Responded(sj, 500)
             ELSE IF sj.R = {} THEN Responded([sj EXCEPT !.parsed = TRUE], 200)
             ELSE [sj EXCEPT !.pc = "upsert", !.parsed = TRUE]
    /\ UNCHANGED <<cbVars, ck, st, orch, syncVars, par>>

\* the time the three attempts of RetryHandler.withRetry(op) take for a store operation
\* that is rejected each time: the waits of 1000 and 2000 ms
StoreRetryWait == 1000 + 2000

\* the UUIDs of ops under which only another account holds a record: a filter {UUID}
\* matches that record
Taken(x, ops) == (ops \cap x.other) \ x.store

\* the UUIDs of ops under which the account and another account both hold a record: a
\* filter {UUID} matches either of the two
Clash(x, ops) == ops \cap x.other \cap x.store

\* updateOne({UUID}, {$set: job}, upsert) for each of ops, each matching a record that
\* stays the account's or becomes the account's by the accountId of $set, or inserting one
BulkWrite(x, ops) == [x EXCEPT !.store = @ \cup ops, !.other = @ \ Taken(x, ops)]

\* bulkWrite: every fetched job is upserted under its UUID; an update that matches the
\* other account's record where the account holds one too is rejected by the unique index
\* on {UUID, accountId}, and bulkWrite throws with some of the other updates applied
SjUpsert ==
    /\ sj.handler = "sync-jobs" /\ sj.pc = "upsert"
    /\ \/ sj' = [BulkWrite(sj, sj.R) EXCEPT !.pc = "cleanup"]
       \/ /\ Clash(sj, sj.R) # {}
          /\ \E applied \in SUBSET (sj.R \ Clash(sj, sj.R)) :
                sj' = SjCaught(BulkWrite(sj, applied))
    /\ UNCHANGED <<cbVars, ck, st, orch, syncVars, par>>

\* deleteMany({accountId, JobDateTime: {$lt: cutoff}})
SjCleanup ==
    /\ sj.handler = "sync-jobs" /\ sj.pc = "cleanup"
    /\ sj' = [sj EXCEPT !.pc = "history", !.store = {u \in @ : ~IsExpired(sj, u)}]
    /\ UNCHANGED <<cbVars, ck, st, orch, syncVars, par>>

\* the history record with status success, then the response
SjHistory ==
    /\ sj.handler = "sync-jobs" /\ sj.pc = "history"
    /\ sj' = Responded([sj EXCEPT !.historyRecords = @ + 1], 200)
    /\ UNCHANGED <<cbVars, ck, st, orch, syncVars, par>>

\* POST /api/trigger-sync/:accountId: the jobs are fetched with a plain fetch; an error
\* status, a body that is not JSON or one without flag or data throws into the catch
\* block, which inserts a history record with status error and responds 500
TsFetch ==
    /\ sj.handler = "trigger-sync" /\ sj.pc = "start"
    /\ sj' = IF sj.up = "data"
             THEN [sj EXCEPT !.pc = "upsert", !.parsed = TRUE]
             ELSE Responded([sj EXCEPT !.historyRecords = @ + 1], 500)
    /\ UNCHANGED <<cbVars, ck, st, orch, syncVars, par>>

\* bulkWrite of the fetched jobs as in /api/sync-jobs, its rejection caught as the errors
\* of the fetch are, then find({accountId}).toArray()
TsUpsert ==
    /\ sj.handler = "trigger-sync" /\ sj.pc = "upsert"
    /\ \/ sj' = [BulkWrite(sj, sj.R) EXCEPT
                     !.pc = "loop",
                     !.queue = SetToSeq(sj.store \cup sj.R),
                     !.total = Cardinality(sj.store \cup sj.R)]
       \/ /\ Clash(sj, sj.R) # {}
          /\ \E applied \in SUBSET (sj.R \ Clash(sj, sj.R)) :
                sj' = Responded([BulkWrite(sj, applied) EXCEPT !.historyRecords = @ + 1],
                                500)
    /\ UNCHANGED <<cbVars, ck, st, orch, syncVars, par>>

\* POST /api/update-account-jobs/:accountId and the account loop of
\* GET /api/cron/update-jobs-uuid: find({accountId}).toArray(); with no stored job the
\* answer is given at once
UjFind ==
    /\ sj.handler = "update-account-jobs" /\ sj.pc = "start"
    /\ sj' = IF sj.store = {}
             THEN Responded(sj, 200)
             ELSE [sj EXCEPT !.pc = "loop", !.queue = SetToSeq(sj.store),
                             !.total = Cardinality(sj.store), !.startTime = now]
    /\ UNCHANGED <<cbVars, ck, st, orch, syncVars, par>>

\* TIME_BUDGET: 11 minutes for batches of BATCH_SIZE = 10 jobs, scaled to the batches of
\* JobsBatchSize jobs of the model
TimeBudget == (11 * 60 * 1000 * JobsBatchSize) \div 10

\* the test at the start of a batch of the worker: Date.now() - startTime > TIME_BUDGET;
\* the first batch starts in the same turn as startTime is read
BudgetBreak(x) ==
    /\ x.handler = "update-account-jobs"
    /\ x.queue # <<>>
    /\ x.total - Len(x.queue) > 0
    /\ (x.total - Len(x.queue)) % JobsBatchSize = 0
    /\ now - x.startTime > TimeBudget

\* the delay after the inner loop when the job at the head of the queue ends its batch
\* and jobs remain: i + BATCH_SIZE < existingJobs.length
BatchPause(x) ==
    IF (x.total - Len(x.queue) + 1) % JobsBatchSize = 0 /\ Len(x.queue) > 1
    THEN BatchDelay(x.handler) ELSE 0

\* whether a filter {UUID: u} matches the account's own record: either record when
\* another account holds one under u too
MatchedOwn(x, u) == IF u \in x.other THEN BOOLEAN ELSE {TRUE}

\* deleteOne({UUID: u}): the matched record is removed and the deletion is counted
DeleteOne(x, u, mine) ==
    [x EXCEPT !.store = IF mine THEN @ \ {u} ELSE @,
              !.other = IF mine THEN @ ELSE @ \ {u},
              !.deleted = @ \cup {u}]

\* the next stored job: in /api/trigger-sync one older than the cutoff is deleted (and the
\* delay of the job is skipped by continue); for another the job is fetched by its UUID
\* with RetryHandler.withRetry(..., 3, delay, workizCircuitBreaker)
TsNext ==
    /\ sj.handler \in PerJobHandlers /\ sj.pc = "loop"
    /\ sj.queue # <<>>
    /\ now >= sj.timerAt
    /\ ~BudgetBreak(sj)
    /\ IF sj.handler = "trigger-sync" /\ IsExpired(sj, Head(sj.queue))
       THEN /\ \E mine \in MatchedOwn(sj, Head(sj.queue)) :
                 sj' = [DeleteOne(sj, Head(sj.queue), mine) EXCEPT
                           !.queue = Tail(@), !.timerAt = now + BatchPause(sj)]
            /\ w' = w
       ELSE /\ sj' = [sj EXCEPT !.pc = "verify"]
            /\ w' = [w EXCEPT !["sj"] = [IdleCall EXCEPT !.pc = "try", !.attempt = 1,
                                            !.maxRetries = VerifyMaxRetries,
                                            !.delay = VerifyDelay(sj.handler),
                                            !.useCb = TRUE]]
    /\ UNCHANGED <<now, threshold, recovery, cb, streak, upstreamCalls,
                   ck, st, orch, syncVars, par>>

\* the per-job withRetry has ended with a response whose body parses: the try block goes on
VerifyAnswered == 
    /\ w["sj"].outcome = "returned"
    /\ w["sj"].result # Undefined
    /\ ParsesAsJson(sj.vup)

\* a loop that deletes every job it could not update
VerifiedAbsentOrFailed == ~(VerifyAnswered /\ sj.vup = "data")

\* the else branch of updateData.flag && updateData.data: the job is deleted
VerifiedAbsent == VerifyAnswered /\ sj.vup = "nodata"

\* the per-job withRetry has ended: a job the upstream returned is updated, a JSON body
\* without flag or data deletes the stored job, and the delay of the job follows; anything
\* else (a thrown error, the undefined of withRetry, a body that is not JSON) is caught and
\* counted, and the delay is skipped. updateOne and deleteOne filter by {UUID} alone: an
\* update that matches the other account's record is rejected by the unique index on
\* {UUID, accountId} at each attempt and is caught and counted as well
TsVerified ==
    /\ sj.handler \in PerJobHandlers /\ sj.pc = "verify"
    /\ w["sj"].pc = "done"
    /\ \E mine \in MatchedOwn(sj, Head(sj.queue)) :
         LET u == Head(sj.queue)
             stored == VerifyAnswered /\ (VerifiedAbsent \/ mine)
             x == IF VerifiedAbsent THEN DeleteOne(sj, u, mine) ELSE sj
         IN  sj' = [x EXCEPT
                      !.pc = "loop",
                      !.queue = Tail(@),
                      !.verified = IF w["sj"].opCalls >= 1 THEN @ \cup {u} ELSE @,
                      !.failed = IF stored THEN @ ELSE @ \cup {u},
                      !.updated = IF stored /\ ~VerifiedAbsent THEN @ \cup {u} ELSE @,
                      !.timerAt = now + (IF stored THEN ItemDelay(sj.handler)
                                         ELSE IF VerifyAnswered THEN StoreRetryWait
                                         ELSE 0)
                                      + BatchPause(sj)]
    /\ w' = [w EXCEPT !["sj"] = IdleCall]
    /\ UNCHANGED <<now, threshold, recovery, cb, streak, upstreamCalls,
                   ck, st, orch, syncVars, par>>

\* after the loop, ended by its test or by the break of the budget check: the history
\* record with status success, then the response
TsHistory ==
    /\ sj.handler \in PerJobHandlers /\ sj.pc = "loop"
    /\ sj.queue = <<>> \/ BudgetBreak(sj)
    /\ now >= sj.timerAt
    /\ sj' = Responded([sj EXCEPT !.historyRecords = @ + 1], 200)
    /\ UNCHANGED <<cbVars, ck, st, orch, syncVars, par>>

-----------------------------------------------------------------------------
(* POST /api/update-all-jobs-parallel and its workers, POST /api/update-account-jobs/:accountId *)

Workers == 1..MaxWorkers

\* what happens to the master's call of an account's worker: the worker runs, the worker
\* throws before its loop (account without token), or the call itself rejects
Fates == {"ok", "no-token", "unreachable"}

IdlePromise ==
    [pc |-> "idle", fate |-> "ok", jobs |-> 0, i |-> 0, late |-> FALSE,
     ok |-> FALSE, success |-> FALSE, historyRecords |-> 0,
     incCompleted |-> 0, incFailed |-> 0]

NoOperation ==
    [status |-> "none", completedAccounts |-> 0, failedAccounts |-> 0,
     accounts |-> [a \in Workers |-> [status |-> "none", jobsProcessed |-> 0]]]

\* operationRecord
NewOperation ==
    [status |-> "running", completedAccounts |-> 0, failedAccounts |-> 0,
     accounts |-> [a \in Workers |-> [status |-> "pending", jobsProcessed |-> 0]]]

IdleParallel ==
    [pc |-> "idle", resp |-> 0, operation |-> NoOperation,
     accountPromises |-> [a \in Workers |-> IdlePromise]]

InitParallelIdle == par = IdleParallel

\* the master inserts the operation record, starts one promise per account and arms the
\* 11-minute timer of the race
ParallelStart ==
    /\ par.pc = "idle"
    /\ par' = [par EXCEPT !.pc = "racing", !.operation = NewOperation,
                          !.accountPromises =
                              [a \in Workers |-> [par.accountPromises[a] EXCEPT !.pc = "markRunning"]]]
    /\ UNCHANGED <<cbVars, ck, st, orch, sj, syncVars>>

\* "accounts.$.status": "running"
MarkRunning(a) ==
    /\ par.accountPromises[a].pc = "markRunning"
    /\ par' = [par EXCEPT !.accountPromises[a].pc = "fetch",
                          !.operation.accounts[a].status = "running"]
    /\ UNCHANGED <<cbVars, ck, st, orch, sj, syncVars>>

\* fetch(/api/update-account-jobs/<id>): the request reaches the worker, or rejects
CallWorker(a) ==
    /\ par.accountPromises[a].pc = "fetch"
    /\ par' = [par EXCEPT !.accountPromises[a].pc =
                              IF par.accountPromises[a].fate = "unreachable"
                              THEN "catch" ELSE "worker"]
    /\ UNCHANGED <<cbVars, ck, st, orch, sj, syncVars>>

\* the worker up to its loop: a missing token throws (answer 500), no stored job answers
\* 200 at once, otherwise the time budget starts and the loop is entered
WorkerStart(a) ==
    /\ par.accountPromises[a].pc = "worker"
    /\ par' = [par EXCEPT !.accountPromises[a] =
                  IF @.fate = "no-token" THEN [@ EXCEPT !.pc = "responded", !.ok = FALSE]
                  ELSE IF @.jobs = 0 THEN [@ EXCEPT !.pc = "responded", !.ok = TRUE]
                  ELSE [@ EXCEPT !.pc = "loop", !.i = 0]]
    /\ UNCHANGED <<cbVars, ck, st, orch, sj, syncVars>>

\* Date.now() - startTime > TIME_BUDGET
TimeBudgetExceeded(p) == p.late

\* one turn of the worker's loop inside the budget: the jobs of the batch are verified, each
\* in its own try/catch (BATCH_SIZE is 10 in the source, 1 here)
WorkerBatch(a) ==
    /\ par.accountPromises[a].pc = "loop"
    /\ par.accountPromises[a].i < par.accountPromises[a].jobs
    /\ ~TimeBudgetExceeded(par.accountPromises[a])
    /\ par' = [par EXCEPT !.accountPromises[a].i = @ + 1]
    /\ UNCHANGED <<cbVars, ck, st, orch, sj, syncVars>>

\* the worker's clock passes its budget; the worker starts after the master has armed its
\* timer of the same length, so the master's deadline has passed by then
BudgetElapses(a) ==
    /\ par.pc = "timedOut"
    /\ par.accountPromises[a].pc = "loop"
    /\ ~par.accountPromises[a].late
    /\ par' = [par EXCEPT !.accountPromises[a].late = TRUE]
    /\ UNCHANGED <<cbVars, ck, st, orch, sj, syncVars>>

\* the loop ends, by its test or by the break of the budget check: the history record is
\* inserted and the worker answers 200 with success: true
WorkerRespond(a) ==
    /\ par.accountPromises[a].pc = "loop"
    /\ \/ par.accountPromises[a].i >= par.accountPromises[a].jobs
       \/ TimeBudgetExceeded(par.accountPromises[a])
    /\ par' = [par EXCEPT !.accountPromises[a] =
                  [@ EXCEPT !.pc = "responded", !.ok = TRUE, !.historyRecords = @ + 1]]
    /\ UNCHANGED <<cbVars, ck, st, orch, sj, syncVars>>

\* workerResult.jobsProcessed: existingJobs.length in the answer after the loop
JobsProcessed(p) == IF p.ok THEN p.jobs ELSE 0

\* "accounts.$.status": workerResponse.ok ? "completed" : "failed", with the worker's counts
RecordResult(a) ==
    /\ par.accountPromises[a].pc = "responded"
    /\ par' = [par EXCEPT !.accountPromises[a].pc = "count",
                          !.operation.accounts[a] =
                              [status |-> IF par.accountPromises[a].ok
                                          THEN "completed" ELSE "failed",
                               jobsProcessed |-> JobsProcessed(par.accountPromises[a])]]
    /\ UNCHANGED <<cbVars, ck, st, orch, sj, syncVars>>

\* $inc of completedAccounts or failedAccounts; the promise resolves.  incCompleted and
\* incFailed count the increments this promise has made
CountResult(a) ==
    /\ par.accountPromises[a].pc = "count"
    /\ par' = [par EXCEPT !.accountPromises[a] =
                              [@ EXCEPT !.pc = "returned", !.success = par.accountPromises[a].ok,
                                        !.incCompleted = IF par.accountPromises[a].ok
                                                         THEN @ + 1 ELSE @,
                                        !.incFailed = IF par.accountPromises[a].ok
                                                      THEN @ ELSE @ + 1],
                          !.operation.completedAccounts =
                              IF par.accountPromises[a].ok THEN @ + 1 ELSE @,
                          !.operation.failedAccounts =
                              IF par.accountPromises[a].ok THEN @ ELSE @ + 1]
    /\ UNCHANGED <<cbVars, ck, st, orch, sj, syncVars>>

\* the promise's catch block: "accounts.$.status": "failed"
PromiseCatch(a) ==
    /\ par.accountPromises[a].pc = "catch"
    /\ par' = [par EXCEPT !.accountPromises[a].pc = "catchCount",
                          !.operation.accounts[a].status = "failed"]
    /\ UNCHANGED <<cbVars, ck, st, orch, sj, syncVars>>

\* the catch block's $inc of failedAccounts; the promise resolves with success: false
PromiseCatchCount(a) ==
    /\ par.accountPromises[a].pc = "catchCount"
    /\ par' = [par EXCEPT !.accountPromises[a] =
                              [@ EXCEPT !.pc = "returned", !.success = FALSE,
                                        !.incFailed = @ + 1],
                          !.operation.failedAccounts = @ + 1]
    /\ UNCHANGED <<cbVars, ck, st, orch, sj, syncVars>>

\* an update of the operation record awaited in the promise's try block rejects without
\* being applied: control passes to the promise's catch block
PromiseStoreThrows(a) ==
    /\ par.accountPromises[a].pc \in {"markRunning", "responded", "count"}
    /\ par' = [par EXCEPT !.accountPromises[a].pc = "catch"]
    /\ UNCHANGED <<cbVars, ck, st, orch, sj, syncVars>>

\* an update awaited in the promise's catch block rejects: the promise rejects
PromiseCatchThrows(a) ==
    /\ par.accountPromises[a].pc \in {"catch", "catchCount"}
    /\ par' = [par EXCEPT !.accountPromises[a].pc = "rejected"]
    /\ UNCHANGED <<cbVars, ck, st, orch, sj, syncVars>>

\* Promise.all rejects with the first promise that rejects: the handler's catch block
\* answers 500 and writes nothing
RaceRejected ==
    /\ par.pc = "racing"
    /\ \E a \in Workers : par.accountPromises[a].pc = "rejected"
    /\ par' = [par EXCEPT !.pc = "failed", !.resp = 500]
    /\ UNCHANGED <<cbVars, ck, st, orch, sj, syncVars>>

AllReturned == \A a \in Workers : par.accountPromises[a].pc = "returned"

\* Promise.all wins the race: the final status is written and the master answers 200
RaceResolved ==
    /\ par.pc = "racing"
    /\ AllReturned
    /\ par' = [par EXCEPT !.pc = "done", !.resp = 200,
                          !.operation.status =
                              IF \A a \in Workers : par.accountPromises[a].success
                              THEN "completed" ELSE "completed_with_errors"]
    /\ UNCHANGED <<cbVars, ck, st, orch, sj, syncVars>>

\* the timer wins the race: the rejection is caught by the handler's catch block, which
\* answers 500 and writes nothing; the promises of the accounts are not cancelled
RaceTimeout ==
    /\ par.pc = "racing"
    /\ ~AllReturned
    /\ par' = [par EXCEPT !.pc = "timedOut", !.resp = 500]
    /\ UNCHANGED <<cbVars, ck, st, orch, sj, syncVars>>

InitSync ==
    /\ InitBreakerIdle
    /\ InitChunkIdle
    /\ InitStatusIdle
    /\ InitOrchIdle
    /\ InitJobsIdle
    /\ InitParallelIdle
    /\ accountsDb \in {<<"a1">>, <<"a1", "a2">>}
    /\ sessions = [s \in SessionIds |-> NoDoc]
    /\ jobsStore = {}
    /\ history = [a \in Accounts |-> 0]
    /\ cron = "idle"
    /\ task = [x \in Tasks |-> IdleTask]

NextSync ==
    \/ InitSession
    \/ CronStart
    \/ CronFinish
    \/ \E x \in Tasks : ManualStart(x)
    \/ \E x \in Tasks : MarkProcessing(x)
    \/ \E x \in Tasks : FetchOk(x)
    \/ \E x \in Tasks : FetchFails(x)
    \/ \E x \in Tasks : BatchInfo(x)
    \/ \E x \in Tasks : BatchStart(x)
    \/ \E x \in Tasks : Item(x)
    \/ \E x \in Tasks : BatchComplete(x)
    \/ \E x \in Tasks : Progress(x)
    \/ \E x \in Tasks : Final(x)
    \/ \E x \in Tasks : Cleanup(x)
    \/ \E x \in Tasks : History(x)
    \/ \E x \in Tasks : StoreThrows(x)
    \/ \E x \in Tasks : Catch(x)
    \/ \E x \in Tasks : CatchThrows(x)
    \/ \E x \in Tasks : Kill(x)

SpecSync == InitSync /\ [][NextSync]_vars

-----------------------------------------------------------------------------
(* The specifications *)

InitChunk ==
    /\ InitBreakerIdle
    /\ InitSyncIdle
    /\ InitStatusIdle
    /\ InitOrchIdle
    /\ InitJobsIdle
    /\ InitParallelIdle
    /\ \E n \in 0..MaxChunkJobs, k \in 1..MaxChunkSize :
          ck = [pc |-> "input", jobs |-> [j \in 1..n |-> j], batchSize |-> k, batches |-> <<>>]

NextChunk == Split

SpecChunk == InitChunk /\ [][NextChunk]_vars

InitBreaker ==
    /\ now = 0
    /\ threshold \in 1..MaxThreshold
    /\ recovery = BreakerRecoveryMs
    /\ cb = NewBreaker
    /\ w = [c \in Callers |-> IdleCall]
    /\ streak = 0
    /\ upstreamCalls = 0
    /\ InitChunkIdle
    /\ InitSyncIdle
    /\ InitStatusIdle
    /\ InitOrchIdle
    /\ InitJobsIdle
    /\ InitParallelIdle

\* the session documents the status endpoint is asked about: none, or one created by
\* the init or cron handler (at least one account) whose elements have any statuses
InitStatus ==
    /\ InitBreakerIdle
    /\ InitChunkIdle
    /\ InitSyncIdle
    /\ InitOrchIdle
    /\ InitJobsIdle
    /\ InitParallelIdle
    /\ \E n \in 0..MaxAccounts :
          \E f \in [1..n -> Statuses] :
             st = [session |-> IF n = 0 THEN NoDoc
                               ELSE [NewSession(<<>>) EXCEPT !.accounts =
                                       [i \in 1..n |->
                                          [NewAccountElem(i) EXCEPT !.status = f[i]]]],
                   resp |-> "none", repeats |-> 0]

NextStatus ==
    \/ GetStatus
    \/ SessionWrite

SpecStatus == InitStatus /\ [][NextStatus]_vars

\* a cron run over MaxEntities accounts on a new breaker; the upstream answers the first
\* account's calls and behaves in any of the three ways for each of the others
InitOrch ==
    /\ now = 0
    /\ threshold = WorkizThreshold
    /\ recovery = WorkizRecoveryMs
    /\ cb = NewBreaker
    /\ w = [e \in Entities |-> IdleCall]
    /\ streak = 0
    /\ upstreamCalls = 0
    /\ InitChunkIdle
    /\ InitSyncIdle
    /\ InitStatusIdle
    /\ InitJobsIdle
    /\ InitParallelIdle
    /\ \E up \in {u \in [Entities -> Upstreams] : u[1] = "ok"}, userAgent \in UserAgents :
          orch = [IdleOrch EXCEPT !.up = up, !.userAgent = userAgent]

NextOrch ==
    \/ OrchStart
    \/ OrchReject
    \/ OrchFinish
    \/ TimerTick
    \/ \E e \in Entities : OrchFetch(e)
    \/ \E e \in Entities : OrchAttempt(e)
    \/ \E e \in Entities : OrchOpSucceeds(e)
    \/ \E e \in Entities : OrchOpFails(e)
    \/ \E e \in Entities : OrchWakeUp(e)
    \/ \E e \in Entities : OrchSynced(e)
    \/ \E e \in Entities : OrchCatch(e)

SpecOrch == InitOrch /\ [][NextOrch]_vars

\* the records another account holds in the jobs collection: none, or one under a UUID
\* the account's requests may meet
OtherHolds == {{}, {1}}

\* one request for an account with a token: the stored jobs S0, the jobs R the upstream
\* has (when it answers with a list), the jobs older than the handler's cutoff, the
\* records of another account (where the upstream answers and the store is reached), and
\* the shared breaker new or left open by earlier requests
InitJobs ==
    /\ now = 0
    /\ threshold = WorkizThreshold
    /\ recovery = WorkizRecoveryMs
    /\ cb \in {NewBreaker, OpenBreaker}
    /\ w = [c \in {"sj"} |-> IdleCall]
    /\ streak = cb.failureCount
    /\ upstreamCalls = 0
    /\ InitChunkIdle
    /\ InitSyncIdle
    /\ InitStatusIdle
    /\ InitOrchIdle
    /\ InitParallelIdle
    /\ \E h \in {"sync-jobs", "trigger-sync", "update-account-jobs"},
          up \in ListKinds, vup \in GetKinds,
          R \in SUBSET Uuids, S0 \in SUBSET Uuids, old \in SUBSET Uuids,
          other \in OtherHolds :
          /\ up # "data" => R = {}
          /\ old \subseteq (R \cup S0)
          /\ h = "sync-jobs" => vup = "data"
          /\ h = "update-account-jobs" => (up = "data" /\ R = {} /\ old = {})
          /\ other # {} => (cb = NewBreaker /\ up = "data" /\ vup \in {"data", "nodata"})
          /\ sj = [IdleJobs EXCEPT !.handler = h, !.pc = "start", !.up = up, !.vup = vup,
                                   !.R = R, !.S0 = S0, !.old = old, !.store = S0,
                                   !.other = other]

NextJobs ==
    \/ SjRequest
    \/ SjParse
    \/ SjUpsert
    \/ SjCleanup
    \/ SjHistory
    \/ TsFetch
    \/ TsUpsert
    \/ UjFind
    \/ TsNext
    \/ TsVerified
    \/ TsHistory
    \/ JobsAttempt
    \/ JobsOpSucceeds
    \/ JobsOpFails
    \/ JobsWakeUp
    \/ TimerTick

SpecJobs == InitJobs /\ [][NextJobs]_vars

InitParallel ==
    /\ InitBreakerIdle
    /\ InitChunkIdle
    /\ InitSyncIdle
    /\ InitStatusIdle
    /\ InitOrchIdle
    /\ InitJobsIdle
    /\ \E fate \in [Workers -> Fates], jobs \in [Workers -> 0..MaxWorkerJobs] :
          par = [IdleParallel EXCEPT !.accountPromises =
                    [a \in Workers |-> [IdlePromise EXCEPT !.fate = fate[a], !.jobs = jobs[a]]]]

NextParallel ==
    \/ ParallelStart
    \/ RaceResolved
    \/ RaceRejected
    \/ RaceTimeout
    \/ \E a \in Workers :
          \/ MarkRunning(a)
          \/ CallWorker(a)
          \/ WorkerStart(a)
          \/ WorkerBatch(a)
          \/ BudgetElapses(a)
          \/ WorkerRespond(a)
          \/ RecordResult(a)
          \/ CountResult(a)
          \/ PromiseStoreThrows(a)
          \/ PromiseCatchThrows(a)
          \/ PromiseCatch(a)
          \/ PromiseCatchCount(a)

SpecParallel == InitParallel /\ [][NextParallel]_vars

NextBreaker ==
    \/ \E c \in Callers : StartRetry(c)
    \/ \E c \in Callers : Attempt(c)
    \/ \E c \in Callers : OpSucceeds(c)
    \/ \E c \in Callers : OpFails(c)
    \/ \E c \in Callers : WakeUp(c)
    \/ Tick

SpecBreaker == InitBreaker /\ [][NextBreaker]_vars

-----------------------------------------------------------------------------
(* Claims about the circuit breaker and the retry handler (SpecBreaker) *)

\* C1: once the breaker-admitted operations have failed failureThreshold times in a row
\* (no success since), an execute call made while less than recoveryTimeout has passed
\* since the last recorded failure is rejected with the circuit-open error and the
\* wrapped operation is not invoked.
C1_OpenBreakerRejects ==
    [][\A c \in Callers :
          (/\ w[c].pc = "try" /\ w[c].useCb /\ w'[c] # w[c]
           /\ streak >= threshold
           /\ now - cb.lastFailureTime < RecoveryTimeout)
          => (/\ w'[c].pc = "done" /\ w'[c].outcome = "threw"
              /\ w'[c].lastError = CircuitOpenError
              /\ w'[c].opCalls = w[c].opCalls
              /\ upstreamCalls' = upstreamCalls)]_vars

C1_Witness ==
    \E c \in Callers :
        /\ w[c].pc = "done" /\ w[c].lastError = CircuitOpenError
        /\ threshold >= 2 /\ streak = threshold /\ upstreamCalls = threshold
        /\ now - cb.lastFailureTime < RecoveryTimeout

\* C2: withRetry returns normally only if some attempt of the operation succeeded; when
\* every attempt fails, whatever the failure class, it raises the last error.
C2_NeverReturnsWithoutSuccess ==
    \A c \in Callers :
        (w[c].pc = "done" /\ w[c].outcome = "returned") => w[c].firstOk # 0

\* C3: an attempt that the breaker rejects makes withRetry rethrow the circuit-open error in
\* that same step: no backoff wait is scheduled, the attempt counter does not advance and
\* the operation is not invoked.
C3_CircuitOpenNotRetried ==
    [][\A c \in Callers :
          (w[c].pc = "try" /\ w[c].useCb /\ Rejects(cb, now) /\ w'[c] # w[c])
          => (/\ w'[c].pc = "done" /\ w'[c].outcome = "threw"
              /\ w'[c].lastError = CircuitOpenError
              /\ w'[c].waits = w[c].waits /\ w'[c].attempt = w[c].attempt
              /\ w'[c].opCalls = w[c].opCalls /\ upstreamCalls' = upstreamCalls)]_vars

C3_Witness ==
    \E c \in Callers :
        /\ w[c].pc = "done" /\ w[c].outcome = "threw" /\ w[c].lastError = CircuitOpenError
        /\ w[c].attempt < w[c].maxRetries

\* C4: withRetry invokes the operation at most maxRetries times, and once an attempt has
\* succeeded it has returned that attempt's result without invoking the operation again.
C4_AtMostMaxAttempts ==
    \A c \in Callers :
        /\ w[c].opCalls <= w[c].maxRetries
        /\ w[c].firstOk # 0 =>
              /\ w[c].pc = "done" /\ w[c].outcome = "returned"
              /\ w[c].result = OpResult(w[c].firstOk)
              /\ w[c].opCalls = w[c].firstOk

C4_Witness ==
    \E c \in Callers :
        w[c].pc = "done" /\ w[c].firstOk >= 2 /\ w[c].firstOk = w[c].maxRetries

\* C24: the breaker's state changes only from CLOSED to OPEN by a failure that brings
\* failureCount to the threshold, from OPEN to HALF_OPEN by a call admitted once the
\* recovery timeout has passed since lastFailureTime, from HALF_OPEN to CLOSED by a
\* success, and from HALF_OPEN to OPEN by a failure that sets lastFailureTime; it never
\* goes from OPEN to CLOSED directly, whatever the interleaving of the callers.
C24_TransitionsFollowStateMachine ==
    [][cb'.state # cb.state
       => \/ /\ cb.state = "CLOSED" /\ cb'.state = "OPEN"
             /\ cb'.failureCount = cb.failureCount + 1
             /\ cb'.failureCount >= threshold
          \/ /\ cb.state = "OPEN" /\ cb'.state = "HALF_OPEN"
             /\ now - cb.lastFailureTime >= RecoveryTimeout
          \/ /\ cb.state = "HALF_OPEN" /\ cb'.state = "CLOSED"
             /\ cb'.failureCount = 0
          \/ /\ cb.state = "HALF_OPEN" /\ cb'.state = "OPEN"
             /\ cb'.lastFailureTime = now]_vars

\* C30: a CLOSED breaker has failureCount below the threshold; an OPEN or HALF_OPEN
\* breaker has failureCount at or above it and a lastFailureTime, whatever the
\* interleaving of the callers.
C30_StateAgreesWithCount ==
    /\ cb.state = "CLOSED" => cb.failureCount < threshold
    /\ cb.state \in {"OPEN", "HALF_OPEN"}
       => cb.failureCount >= threshold /\ cb.lastFailureTime # Null

C30_Witness ==
    /\ cb.state = "HALF_OPEN"
    /\ cb.failureCount > threshold
    /\ \A c \in Callers : w[c].pc = "op"

\* C29: when attempt k of withRetry fails with an error that is neither the breaker's
\* rejection nor an overload, then for k < maxRetries the next attempt is made after a
\* wait of exactly delay * 2^(k-1) ms, and for k = maxRetries the error is rethrown.
C29_GenericBackoff ==
    [][\A c \in Callers :
          (/\ w[c].pc = "op" /\ w'[c].pc # "op"
           /\ w'[c].outcome # "returned" /\ w'[c].lastError = ErrorOther)
          => IF w[c].attempt < w[c].maxRetries
             THEN /\ w'[c].pc = "wait"
                  /\ w'[c].wakeAt - now = w[c].delay * (2 ^ (w[c].attempt - 1))
             ELSE w'[c].pc = "done" /\ w'[c].outcome = "threw"]_vars

C29_Witness ==
    \E c \in Callers :
        /\ w[c].waits = <<BaseDelay, 2 * BaseDelay>>
        /\ w[c].lastError = ErrorOther
        /\ w[c].pc = "try" /\ w[c].attempt = 3

\* C31: an execute call rejected because the breaker is OPEN and the recovery timeout
\* has not passed leaves the breaker's state, failureCount and lastFailureTime as they
\* were: a rejected call does not extend the cooldown.
C31_RejectionLeavesBreaker ==
    [][\A c \in Callers :
          (/\ w[c].pc = "try" /\ w[c].useCb /\ w'[c] # w[c]
           /\ cb.state = "OPEN" /\ now - cb.lastFailureTime < RecoveryTimeout)
          => /\ w'[c].lastError = CircuitOpenError
             /\ cb'.state = cb.state
             /\ cb'.failureCount = cb.failureCount
             /\ cb'.lastFailureTime = cb.lastFailureTime]_vars

\* a call that backed off after a failure was rejected at its next attempt, later than
\* the failure the breaker recorded
C31_Witness ==
    \E c \in Callers :
        /\ w[c].pc = "done" /\ w[c].lastError = CircuitOpenError
        /\ w[c].waits # <<>>
        /\ cb.state = "OPEN"
        /\ cb.lastFailureTime # Null /\ cb.lastFailureTime < now

\* C32: a withRetry call on a breaker that was CLOSED with failureCount 0, with no other
\* caller, whose operation fails every time with an error that is not an overload, and
\* which ends before recoveryTimeout has passed, has invoked the operation exactly
\* min(maxRetries, failureThreshold) times; it ends with the circuit-open error when
\* maxRetries > failureThreshold and with the operation's error otherwise.
C32_CallsUntilBreakerOpens ==
    LET c == w["w1"]
    IN (/\ c.pc = "done" /\ c.useCb /\ c.firstOk = 0
        /\ w["w2"] = IdleCall
        /\ \A k \in 1..Len(c.waits) : c.waits[k] = c.delay * (2 ^ (k - 1))
        /\ c.lastError # Error520
        /\ now < RecoveryTimeout)
       => /\ c.opCalls = Min(c.maxRetries, threshold)
          /\ c.outcome = "threw"
          /\ c.lastError = IF c.maxRetries > threshold THEN CircuitOpenError ELSE ErrorOther

C32_Witness ==
    /\ w["w2"] = IdleCall
    /\ w["w1"].pc = "done" /\ w["w1"].useCb
    /\ w["w1"].maxRetries = 3 /\ threshold = 1
    /\ w["w1"].waits = <<BaseDelay>>
    /\ w["w1"].opCalls = 1
    /\ w["w1"].lastError = CircuitOpenError
    /\ now < RecoveryTimeout

-----------------------------------------------------------------------------
(* Claims about the splitting into batches (SpecChunk) *)

Ceil(n, k) == (n + k - 1) \div k

RECURSIVE Flatten(_)
Flatten(ss) == IF ss = <<>> THEN <<>> ELSE Head(ss) \o Flatten(Tail(ss))

\* C10: n jobs split with batch size K give ceil(n/K) batches; all but the last hold K jobs,
\* the last holds n - K*(ceil(n/K) - 1), and the batches laid end to end are the input.
C10_ChunkShape ==
    ck.pc = "done" =>
        LET n == Len(ck.jobs)
            k == ck.batchSize
            cnt == Ceil(n, k)
        IN /\ Len(ck.batches) = cnt
           /\ \A b \in 1..(cnt - 1) : Len(ck.batches[b]) = k
           /\ cnt > 0 => Len(ck.batches[cnt]) = n - k * (cnt - 1)
           /\ Flatten(ck.batches) = ck.jobs

C10_Witness ==
    /\ ck.pc = "done" /\ Len(ck.jobs) = 35 /\ ck.batchSize = 10
    /\ [b \in 1..Len(ck.batches) |-> Len(ck.batches[b])] = <<10, 10, 10, 5>>

-----------------------------------------------------------------------------
(* Claims about the account pipelines (SpecSync) *)

\* the accounts elements of session s that belong to account a
ElemsOf(s, a) ==
    {sessions[s].accounts[i] : i \in {j \in 1..Len(sessions[s].accounts) :
                                        sessions[s].accounts[j].accountId = Oid(a)}}

\* the next-batch position of an accounts element: its leading completed batches
Position(e) ==
    Cardinality({k \in 1..Len(e.batches) :
                    \A j \in 1..k : e.batches[j].status = "completed"})

\* batch k (from 0) of account a is recorded completed in session s
RecordedCompleted(s, a, k) ==
    \E e \in ElemsOf(s, a) : k + 1 <= Len(e.batches) /\ e.batches[k + 1].status = "completed"

\* C5: a pipeline that tracks a session is at work on batch k+1 (marked processing, an item
\* being written, its completion being recorded) only when batch k is recorded completed
\* for its account in that session.
C5_BatchAfterRecordedCompletion ==
    \A x \in Tasks :
        (/\ task[x].session # NoSession
         /\ task[x].pc \in {"item", "batchComplete", "progress"}
         /\ task[x].batchIndex >= 1)
        => RecordedCompleted(task[x].session, task[x].account, task[x].batchIndex - 1)

\* C6: two pipeline invocations for the same account are never inside batches that share
\* a record at the same time.
C6_OneWorkerPerRecord ==
    \A x, y \in Tasks :
        (/\ x # y
         /\ task[x].account = task[y].account
         /\ task[x].pc \in {"item", "batchComplete"}
         /\ task[y].pc \in {"item", "batchComplete"})
        => Range(CurrentBatch(task[x])) \cap Range(CurrentBatch(task[y])) = {}

\* C7: an invocation that follows an interrupted one for the same account and session
\* writes no job of a batch that the interrupted invocation had finished and executed
\* the completion update for.
C7_ResumeSkipsRecordedBatches ==
    \A x \in Tasks :
        task[x].pc = "item" => CurrentJob(task[x]) \notin task[x].skip

\* C8: at the moment a manual pipeline called with a sessionId returns successfully, its
\* account's element of the session has status completed, all its batches are completed
\* (the next-batch position is totalBatches) and processedJobs equals totalJobs.
C8_ReturnLeavesSessionCompleted ==
    [][\A x \in Tasks :
          (/\ task[x].kind = "manual" /\ task[x].session # NoSession
           /\ task[x].pc = "history" /\ task'[x].pc = "done")
          => \E e \in {sessions'[task[x].session].accounts[i] :
                          i \in {j \in 1..Len(sessions'[task[x].session].accounts) :
                                    sessions'[task[x].session].accounts[j].accountId
                                        = Oid(task[x].account)}} :
                /\ e.status = "completed"
                /\ e.totalBatches = Len(e.batches)
                /\ Position(e) = e.totalBatches
                /\ e.processedJobs = e.totalJobs]_vars

C26_BatchStatusFromItems ==
    [][\A x \in Tasks :
          (/\ task[x].session # NoSession
           /\ task[x].pc = "batchComplete" /\ task'[x].pc = "progress"
           /\ task[x].batchIndex = 0)
          => LET new == sessions'[task[x].session].accounts
                 ok == task[x].updatedJobsCount
                 bad == task[x].failedUpdatesCount
             IN \A i \in 1..Len(new) :
                   (new[i].accountId = Oid(task[x].account) /\ Len(new[i].batches) >= 1)
                   => new[i].batches[1].status =
                         IF bad = 0 THEN "completed"
                         ELSE IF ok = 0 THEN "failed"
                         ELSE "completed_with_errors"]_vars

\* C33: in a session, the recorded status of an account changes only from pending to
\* processing and from processing to completed or failed; a recorded completed or failed
\* never changes afterwards.
C33_StatusMovesForward ==
    [][\A s \in SessionIds :
          (sessions[s].exists /\ sessions'[s].exists)
          => \A i \in 1..Len(sessions[s].accounts) :
                LET old == sessions[s].accounts[i].status
                    new == sessions'[s].accounts[i].status
                IN old # new => <<old, new>> \in {<<"pending", "processing">>,
                                                  <<"processing", "completed">>,
                                                  <<"processing", "failed">>}]_vars

\* C34: the failedJobs recorded for a finished batch counts the items of that batch
\* whose store write failed, so it lies between 0 and the batch's jobCount, for every
\* batch index.
C34_BatchFailedJobsInRange ==
    \A s \in SessionIds :
        \A i \in 1..Len(sessions[s].accounts) :
            \A k \in 1..Len(sessions[s].accounts[i].batches) :
                LET b == sessions[s].accounts[i].batches[k]
                IN b.status = "completed"
                   => 0 <= b.failedJobs /\ b.failedJobs <= b.jobCount

\* C37: for a session whose accounts are all completed or failed, the overallStatus the
\* sessions listing shows is the overallStatus the status endpoint derives for it; such a
\* session is not listed as initializing or processing.
C37_ListingAgreesWithStatus ==
    \A s \in SessionIds :
        (/\ sessions[s].exists
         /\ Len(sessions[s].accounts) > 0
         /\ \A i \in 1..Len(sessions[s].accounts) :
               sessions[s].accounts[i].status \in {"completed", "failed"})
        => /\ ListedStatus(sessions[s]) = OverallStatus(sessions[s].accounts)
           /\ ListedStatus(sessions[s]) \notin {"initializing", "processing"}

-----------------------------------------------------------------------------
(* Claims about the session status endpoint (SpecStatus) *)

AllStatus(accts, status) == \A i \in 1..Len(accts) : accts[i].status = status

\* C11: for a session that exists, the status endpoint reports completed iff every
\* account is completed, failed iff every account is failed, completed_with_errors iff
\* every account is completed or failed and neither of the former holds, and processing
\* iff some account is pending or processing.
C11_OverallStatusDerivation ==
    (st.resp # "none" /\ st.session.exists) =>
        LET a == st.session.accounts
        IN /\ st.resp = "completed" <=> AllStatus(a, "completed")
           /\ st.resp = "failed" <=> AllStatus(a, "failed")
           /\ st.resp = "completed_with_errors" <=>
                 /\ \A i \in 1..Len(a) : a[i].status \in {"completed", "failed"}
                 /\ ~AllStatus(a, "completed") /\ ~AllStatus(a, "failed")
           /\ st.resp = "processing" <=>
                 \E i \in 1..Len(a) : a[i].status \in {"pending", "processing"}

C11_Witness ==
    /\ st.resp = "completed_with_errors"
    /\ \E i, j \in 1..Len(st.session.accounts) :
          /\ st.session.accounts[i].status = "completed"
          /\ st.session.accounts[j].status = "failed"

\* C23: a request to the status endpoint leaves the session document and every stored
\* record as they were, and a request made while the answer to the previous one stands
\* (no write has followed it) is answered as the previous one.
C23_StatusReadIsIdempotent ==
    [][st'.repeats # st.repeats \/ (st.resp = "none" /\ st'.resp # "none")
       => /\ st'.session = st.session
          /\ UNCHANGED <<sessions, jobsStore, history, accountsDb>>
          /\ st.resp # "none" => st'.resp = st.resp]_vars

C23_Witness ==
    /\ st.repeats = 2
    /\ st.resp = "completed_with_errors"

-----------------------------------------------------------------------------
(* Claims about the orchestration (SpecOrch) *)

\* C12: an account whose upstream answers its calls and whose store operations succeed
\* is not failed: it is failed only by a store operation of its own.
C12_SiblingFailureIsolated ==
    \A e \in Entities :
        (orch.up[e] = "ok" /\ orch.status[e] = "failed") => orch.error[e] = StoreError

\* C13: when the run over three accounts has ended, the upstream having answered 520 to
\* every call of account 2 and data to the calls of accounts 1 and 3, and no store
\* operation having failed, accounts 1 and 3 are completed, account 2 is failed, the
\* session's overallStatus is completed_with_errors and the breaker's failureCount is
\* at least 1.
C13_OverloadScenarioOutcome ==
    (/\ orch.pc = "done"
     /\ MaxEntities = 3
     /\ orch.up = <<"ok", Error520, "ok">>
     /\ \A e \in Entities : orch.error[e] # StoreError)
    => /\ orch.status = <<"completed", "failed", "completed">>
       /\ orch.overallStatus = "completed_with_errors"
       /\ cb.failureCount >= 1

\* C22: a request to the cron handler whose User-Agent lacks the marker "vercel-cron"
\* is answered 403 and has no effect: no session is created, no upstream call is made,
\* no account is touched and no field of the breaker changes.
C22_UnmarkedTriggerRejected ==
    ~Includes(orch.userAgent, "vercel-cron")
    => /\ orch.pc \in {"idle", "rejected"}
       /\ orch.pc = "rejected" => orch.response = 403
       /\ orch.overallStatus = "none"
       /\ \A e \in Entities : orch.status[e] = "none" /\ orch.historyRecords[e] = 0
       /\ upstreamCalls = 0
       /\ cb = NewBreaker
       /\ \A e \in Entities : w[e] = IdleCall

C22_Witness ==
    /\ orch.userAgent = <<"Mozilla", "Vercel">>
    /\ orch.pc = "rejected"
    /\ orch.response = 403

\* C25: when the cron run has ended, the overallStatus persisted in its session is
\* completed iff every account is completed, failed iff every account is failed, and
\* completed_with_errors iff some accounts are completed and the others failed.
C25_PersistedOverallStatusDerived ==
    orch.pc = "done"
    => LET completed == {e \in Entities : orch.status[e] = "completed"}
           failed == {e \in Entities : orch.status[e] = "failed"}
       IN /\ orch.overallStatus = "completed" <=> completed = Entities
          /\ orch.overallStatus = "failed" <=> failed = Entities
          /\ orch.overallStatus = "completed_with_errors"
                <=> (completed # {} /\ failed # {} /\ completed \cup failed = Entities)

\* C16: a step in which a pipeline of account A records a batch's completion or its
\* progress in its session leaves the element of every other account as it was; the
\* completion changes, in A's element, the matched batch only and marks it completed, and
\* the progress update leaves A's element with the processedJobs the pipeline wrote.
C16_UpdateTouchesOnlyOwnElement ==
    [][\A x \in Tasks :
          (/\ task[x].session # NoSession
           /\ \/ task[x].pc = "batchComplete" /\ task'[x].pc = "progress"
              \/ task[x].pc = "progress" /\ task'[x].pc \in {"batchStart", "final"})
          => LET old == sessions[task[x].session].accounts
                 new == sessions'[task[x].session].accounts
                 b == task[x].batchIndex + 1
             IN /\ Len(new) = Len(old)
                /\ \A i \in 1..Len(old) :
                      old[i].accountId # Oid(task[x].account) => new[i] = old[i]
                /\ \E i \in 1..Len(old) :
                      /\ old[i].accountId = Oid(task[x].account)
                      /\ IF task[x].pc = "batchComplete"
                         THEN /\ Len(new[i].batches) = Len(old[i].batches)
                              /\ b <= Len(new[i].batches)
                              /\ new[i].batches[b].status = "completed"
                              /\ \A k \in 1..Len(old[i].batches) :
                                    k # b => new[i].batches[k] = old[i].batches[k]
                              /\ [new[i] EXCEPT !.batches = old[i].batches] = old[i]
                         ELSE /\ new[i].processedJobs = task[x].processedJobs
                              /\ new[i].batches = old[i].batches]_vars

-----------------------------------------------------------------------------
(* Claims about the reconciliation of the jobs store (SpecJobs) *)

\* C14: when /api/sync-jobs has reconciled a non-empty upstream set R against the stored
\* set S0, every job of R is stored and the jobs deleted are exactly the stored jobs that
\* are absent from R and older than the cutoff.
C14_ReconcileDeletesOnlyAbsentOld ==
    (sj.handler = "sync-jobs" /\ sj.pc = "done" /\ sj.resp = 200 /\ sj.R # {})
    => /\ sj.R \subseteq sj.store
       /\ sj.S0 \ sj.store = {u \in sj.S0 : u \notin sj.R /\ u \in sj.old}

\* C15: a stored job that is absent from the upstream set and not older than the cutoff
\* stays stored unless the upstream has been asked for that job by its UUID.
C15_YoungAbsentRetainedUntilVerified ==
    \A u \in sj.S0 \ sj.R :
        (u \notin sj.old /\ u \notin sj.store) => u \in sj.verified

C15_Witness ==
    /\ sj.handler = "trigger-sync"
    /\ \E u \in sj.S0 \ sj.R, v \in sj.S0 \ sj.R :
          /\ u \notin sj.old /\ u \notin sj.store /\ u \in sj.verified
          /\ v \in sj.old /\ v \notin sj.store /\ v \notin sj.verified

\* C17: a request that has ended, with whatever response, has inserted a history record.
C17_HistoryOnTermination ==
    sj.pc = "done" => sj.historyRecords >= 1

\* C20: when /api/sync-jobs has ended after the upstream answered its calls with status
\* 200 and an HTML error page, the answer was handled as a 520 failure: the retry handler
\* caught the 520 error and waited the overload backoff, and the body was not accepted.
C20_HtmlBodyIsOverload ==
    (/\ sj.handler = "sync-jobs" /\ sj.pc = "done"
     /\ sj.up = "html200" /\ w["sj"].opCalls >= 1)
    => /\ w["sj"].lastError = Error520
       /\ w["sj"].waits # <<>>
       /\ ~sj.parsed

\* C19: when an attempt k of withRetry fails with a 520 error and the handler waits, the
\* wait is 10000 * 2^(k-1) ms whatever delay the caller passed; with maxRetries = 3 the
\* waits after attempts 1 and 2 are 10000 ms and 20000 ms.
C19_OverloadBackoff ==
    [][\A c \in DOMAIN w :
          (w[c].pc = "op" /\ w'[c].pc = "wait" /\ w'[c].lastError = Error520)
          => /\ w'[c].wakeAt - now = 10000 * Pow2(w[c].attempt - 1)
             /\ w'[c].waits = Append(w[c].waits, 10000 * Pow2(w[c].attempt - 1))
             /\ (w[c].maxRetries = 3 /\ w[c].attempt = 1) => w'[c].wakeAt - now = 10000
             /\ (w[c].maxRetries = 3 /\ w[c].attempt = 2) => w'[c].wakeAt - now = 20000]_vars

C19_Witness ==
    /\ w["sj"].maxRetries = 3
    /\ w["sj"].delay = 1000
    /\ w["sj"].pc = "try"
    /\ w["sj"].attempt = 3
    /\ w["sj"].lastError = Error520
    /\ w["sj"].waits = <<10000, 20000>>

\* C35: in the worker's answer with success: true, jobsProcessed (the number of stored
\* jobs found) equals jobsUpdated + jobsDeleted + failedUpdates, each stored job being
\* counted in exactly one of the three, also when the budget check ended the loop.
C35_ProcessedIsSumOfCounts ==
    (sj.handler = "update-account-jobs" /\ sj.pc = "done" /\ sj.resp = 200 /\ sj.total > 0)
    => LET jobsDeleted == sj.deleted
       IN /\ sj.total = Cardinality(sj.updated) + Cardinality(jobsDeleted)
                            + Cardinality(sj.failed)
          /\ sj.updated \cap jobsDeleted = {}
          /\ sj.updated \cap sj.failed = {}
          /\ jobsDeleted \cap sj.failed = {}

-----------------------------------------------------------------------------
(* Claims about the parallel update of all accounts (SpecParallel) *)

\* C18: once the master's deadline has passed, an account whose worker has not gone
\* through all its jobs is still pending or running in the operation record, and
\* failedAccounts counts only the promises that resolved with a failure of their own.
C18_UnfinishedLeftInProgress ==
    par.pc = "timedOut" =>
        /\ \A a \in Workers :
              (par.accountPromises[a].fate = "ok"
                  /\ par.accountPromises[a].i < par.accountPromises[a].jobs)
              => par.operation.accounts[a].status \in {"pending", "running"}
        /\ par.operation.failedAccounts =
              Cardinality({a \in Workers : /\ par.accountPromises[a].pc = "returned"
                                            /\ ~par.accountPromises[a].success})

\* C36: in the operation record, under every interleaving of the accounts' promises,
\* completedAccounts + failedAccounts never exceeds totalAccounts, every account has been
\* counted at most once and in one counter only, the counters hold exactly the counted
\* accounts, and once every promise has settled the sum equals totalAccounts.
C36_AccountsCountedOnce ==
    LET p == par.accountPromises
        op == par.operation
    IN /\ op.completedAccounts + op.failedAccounts <= MaxWorkers
       /\ \A a \in Workers : p[a].incCompleted + p[a].incFailed <= 1
       /\ op.completedAccounts = Cardinality({a \in Workers : p[a].incCompleted = 1})
       /\ op.failedAccounts = Cardinality({a \in Workers : p[a].incFailed = 1})
       /\ (\A a \in Workers : p[a].pc \in {"returned", "rejected"})
          => op.completedAccounts + op.failedAccounts = MaxWorkers

-----------------------------------------------------------------------------
(* Claims about rate limits and delays (SpecJobs) *)

\* C21: a call that withRetry issues after the upstream answered the previous call of the
\* same invocation with status 429 is issued at least 60 s after that call.
C21_RetryAfterRateLimit ==
    [][(/\ w["sj"].pc = "try" /\ w'["sj"].pc = "op"
        /\ w["sj"].opCalls >= 1
        /\ CurrentKind = "status429")
       => now - sj.calledAt >= 60000]_vars

\* C27: in the per-job loop of the update handlers a stored job is deleted only after a
\* call for that job was answered and the answer parsed as a body without flag or data; a
\* job whose verification ended otherwise (an error status, 520, 429, a timeout, the
\* breaker's rejection, retries used up) is still stored and is counted as a failed update.
C27_DeletedOnlyWhenReportedAbsent ==
    sj.handler = "update-account-jobs" =>
        \A u \in sj.S0 :
            /\ u \notin sj.store
                  => (u \in sj.verified /\ sj.vup = "nodata" /\ u \notin sj.failed)
            /\ (/\ sj.pc \in {"loop", "done"}
                /\ u \notin Range(sj.queue)
                /\ sj.vup \notin {"data", "nodata"})
                  => (u \in sj.store /\ u \in sj.failed)
            /\ (sj.pc \in {"loop", "done"} /\ u \notin Range(sj.queue) /\ u \notin sj.verified)
                  => (u \in sj.store /\ u \in sj.failed)

C27_Witness ==
    /\ sj.handler = "update-account-jobs"
    /\ sj.pc = "done"
    /\ sj.vup = "nodata"
    /\ \E u \in sj.S0, v \in sj.S0 :
          /\ u \notin sj.store /\ u \in sj.verified
          /\ v \in sj.store /\ v \in sj.failed /\ v \notin sj.verified

\* C28: in the per-job loop of the update handlers every call of the upstream is issued at
\* least 6 s after the call before it, whatever the answer to that call was.
C28_CallsSpacedByItemDelay ==
    [][(/\ sj.handler = "update-account-jobs"
        /\ w["sj"].pc = "try" /\ w'["sj"].pc = "op"
        /\ sj.calledAt # Null)
       => now - sj.calledAt >= 6000]_vars

\* C38: reconciling or verifying the jobs of one account never inserts, changes, re-assigns
\* or deletes a record held by another account, also under a UUID both accounts hold:
\* the records of the other account stay as they are at every step of a request
C38_OtherAccountsRecordsUntouched == [][sj'.other = sj.other]_vars

=============================================================================
